---- MODULE Spec2Model ----
(***************************************************************************)
(* Model of the solana-multiswap step pipeline: the Amount Normalizer      *)
(* (NormalizeRoutesStep), the Wrap Planner (WrapSolStep), the Route        *)
(* Resolver (SwapStep), the Instruction Assembler                          *)
(* (AssembleInstructionsStep), the Lookup-Table Resolver (ResolveAltStep)  *)
(* and the Transaction Compiler (FinalizeTxStep), operating on one         *)
(* StepContext.                                                            *)
(*                                                                         *)
(* A base-unit amount is a natural number held as two limbs <<hi, lo>> of  *)
(* 27 bits (value hi * 2^27 + lo), so that the 53-bit precision of the     *)
(* numbers of the source is within reach; an absent amount is <<>>.        *)
(*                                                                         *)
(* Route indices are the 0-based indices of the source.  An absent or null *)
(* instruction field is NullJson / NullIx; an absent instruction array is  *)
(* the empty sequence (the code reads both through `?? []` / `?.length`).  *)
(***************************************************************************)
EXTENDS Integers, Sequences, FiniteSets, TLC

VARIABLES
    body,             \* the JSON body of a swap-instructions response
    parsed,           \* what SwapIxsSchema.parse made of it, once called
    http,             \* the exchanges of the Jupiter client with the service, in order
    rawRoutes,        \* the routes the caller passed
    norm,             \* each route's async callback in NormalizeRoutesStep.run
    queries,          \* the ledger queries issued for each route, in order
    wrapRequests,     \* the provider requests issued by WrapSolStep.run, in order
    routes,           \* ctx.routes
    onRouteNotFound,  \* ctx.onRouteNotFound
    params,           \* what the caller passed besides the routes
    task,             \* position of each route's async callback in SwapStep.run
    thrown,           \* what the provider threw at each route's callback, if anything
    swapRequests,     \* the provider requests each route's callback in SwapStep.run issued, in order
    swapPayloads,     \* ctx.swapPayloads
    skipped,          \* ctx.skipped
    wrapInstrs,       \* ctx.wrapInstrs
    cleanupInstr,     \* ctx.cleanupInstr
    wrappedLamports,  \* ctx.wrappedLamports
    instructions,     \* ctx.instructions
    assembled,        \* what each run of AssembleInstructionsStep assigned to ctx.instructions
    altAccounts,      \* ctx.altAccounts
    altQueries,       \* the getAddressLookupTable calls issued, with their answers
    serialized,       \* what compile/serialize did in FinalizeTxStep.run
    result,           \* ctx.result
    error,            \* the error the pipeline ended with
    pc                \* the step the pipeline is in

vars == <<body, parsed, http, rawRoutes, norm, queries, wrapRequests, routes, onRouteNotFound, params, task, thrown, swapRequests, swapPayloads, skipped, wrapInstrs,
          cleanupInstr, wrappedLamports, instructions, assembled, altAccounts, altQueries,
          serialized, result, error, pc>>

----------------------------------------------------------------------------
(* Bounds of the model *)

MaxRoutes == 3
MaxPayloads == 2
SizeSlack == 1
MaxRawRoutes == 2
MaxMonoRoutes == 2
MaxSchemaIxs == 1
MaxClientRoutes == 2
MaxEquivRoutes == 2

----------------------------------------------------------------------------
(* Program constants *)

SOL == "So11111111111111111111111111111111111111112"
USDC == "EPjFWdd5AufqSSqeM2qN1xzybapC8G4wEGGkZwyTDt1v"
ATA_PROGRAM_ID == "ATokenGPvbdGVxr1b2hvZbsiqW5xWH25efTNsLJA8knL"
COMPUTE_BUDGET_PROGRAM_ID == "ComputeBudget111111111111111111111111111111"
COULD_NOT_FIND_ANY_ROUTE == "COULD_NOT_FIND_ANY_ROUTE"
MAX_TX_SIZE == 1232
DefaultComputeUnits == 1000000

----------------------------------------------------------------------------
(* Numbers: base-unit amounts are decimal strings in the source; BigInt    *)
(* reads them exactly, Number reads them as IEEE-754 doubles.              *)

Limb == 134217728

Undefined == <<>>

\* the amount n, for n below 2^31
Big(n) == <<n \div Limb, n % Limb>>

Zero == Big(0)

\* exact sum
BigAdd(a, b) ==
    <<a[1] + b[1] + ((a[2] + b[2]) \div Limb), (a[2] + b[2]) % Limb>>

\* a < b, exactly
BigLess(a, b) == a[1] < b[1] \/ (a[1] = b[1] /\ a[2] < b[2])

RECURSIVE Pow2(_)
Pow2(k) == IF k = 0 THEN 1 ELSE 2 * Pow2(k - 1)

\* how many bits the natural number with high limb hi has beyond 53
RECURSIVE ExcessBits(_)
ExcessBits(hi) == IF hi < 67108864 THEN 0 ELSE 1 + ExcessBits(hi \div 2)

\* the double nearest to the natural number a, ties to the even mantissa
RoundToDouble(a) ==
    LET s == Pow2(ExcessBits(a[1]))
        r == a[2] % s
        down == a[2] - r
        up == down + s
        lo == IF 2 * r < s THEN down
              ELSE IF 2 * r > s THEN up
              ELSE IF (down \div s) % 2 = 0 THEN down ELSE up
    IN <<a[1] + (lo \div Limb), lo % Limb>>

\* Number(r.amount) of a decimal integer string
Number(amount) == RoundToDouble(amount)

\* x + y on two numbers that hold naturals
NumberAdd(x, y) == RoundToDouble(BigAdd(x, y))

\* Math.floor(n * 10 ** decimals) in double arithmetic, for the user-facing
\* amounts of the model: 2.01 * 10 ** 6 is 2009999.9999999998 and
\* 2.01 * 10 ** 9 is 2009999999.9999998
FloorOfProduct(ui, decimals) ==
    CASE ui = "0.5" /\ decimals = 6 -> 500000
      [] ui = "0.5" /\ decimals = 9 -> 500000000
      [] ui = "2.01" /\ decimals = 6 -> 2009999
      [] ui = "2.01" /\ decimals = 9 -> 2009999999

uiToBaseUnits(ui, decimals) == Big(FloorOfProduct(ui, decimals))

solToLamports(sol) == uiToBaseUnits(sol, 9)

----------------------------------------------------------------------------
(* Instructions: the JSON form returned by the service and the             *)
(* TransactionInstruction form used by the assembler.                      *)

NullJson == [programId |-> "null", accounts |-> <<>>, data |-> ""]
NullIx == [programId |-> "null", keys |-> <<>>, data |-> <<>>]
NoPubkey == "undefined"

\* Buffer.from(s, "base64") on the payload strings of the model; the decoder
\* ignores the unused low bits of the last symbol, so "ER==" and "EQ=="
\* decode to the same byte.
B64Decode(s) ==
    CASE s = "AA==" -> <<0>>
      [] s = "AQ==" -> <<1>>
      [] s = "Ag==" -> <<2>>
      [] s = "CQ==" -> <<9>>
      [] s = "EQ==" -> <<17>>
      [] s = "ER==" -> <<17>>
      [] s = "5A==" -> <<228>>
      [] s = "5Q==" -> <<229>>
      [] s = "AQID" -> <<1, 2, 3>>
      [] s = "AkBCDwA=" -> <<2, 64, 66, 15, 0>>
      [] s = "AsBcFQA=" -> <<2, 192, 92, 21, 0>>
      [] s = "AsAnCQA=" -> <<2, 192, 39, 9, 0>>
      [] s = "A4gTAAAAAAAA" -> <<3, 136, 19, 0, 0, 0, 0, 0, 0>>
      [] s = "AwEAAAAAAAAA" -> <<3, 1, 0, 0, 0, 0, 0, 0, 0>>
      [] OTHER -> <<>>

CanonicalB64 ==
    {"", "AA==", "AQ==", "Ag==", "CQ==", "EQ==", "5A==", "5Q==", "AQID",
     "AkBCDwA=", "AsBcFQA=", "AsAnCQA=", "A4gTAAAAAAAA", "AwEAAAAAAAAA"}

\* Buffer.from(data).toString("base64")
B64Encode(bytes) == CHOOSE s \in CanonicalB64 : B64Decode(s) = bytes

toIx(ix) ==
    [programId |-> ix.programId,
     keys |-> ix.accounts,
     data |-> B64Decode(ix.data)]

RECURSIVE MapToIx(_)
MapToIx(s) == IF s = <<>> THEN <<>> ELSE <<toIx(Head(s))>> \o MapToIx(Tail(s))

\* little-endian u32 of ComputeBudgetProgram.setComputeUnitLimit
U32LE(n) ==
    <<n % 256, (n \div 256) % 256, (n \div 65536) % 256, (n \div 16777216) % 256>>

setComputeUnitLimit(units) ==
    [programId |-> COMPUTE_BUDGET_PROGRAM_ID,
     keys |-> <<>>,
     data |-> <<2>> \o U32LE(units)]

----------------------------------------------------------------------------
(* AssembleInstructionsStep *)

PubkeyAt(ix, n) == IF Len(ix.keys) > n THEN ix.keys[n + 1].pubkey ELSE NoPubkey

ataKey(ix) == <<PubkeyAt(ix, 2), PubkeyAt(ix, 3)>>

genericKey(ix) ==
    <<ix.programId,
      [k \in 1..Len(ix.keys) |-> ix.keys[k].pubkey],
      B64Encode(ix.data)>>

EmptyAsm == [ixs |-> <<>>, seenATAs |-> {}, seenGeneric |-> {}]

\* variant: ATA creations are deduplicated like any other instruction
pushIfUnique_GenericOnly(st, ix) ==
    IF genericKey(ix) \in st.seenGeneric
    THEN st
    ELSE [st EXCEPT !.seenGeneric = @ \cup {genericKey(ix)},
                    !.ixs = Append(@, ix)]

\* variant: only ATA creations are deduplicated
pushIfUnique_AtaOnly(st, ix) ==
    IF ix.programId = ATA_PROGRAM_ID /\ ataKey(ix) \in st.seenATAs
    THEN st
    ELSE [st EXCEPT !.seenATAs = @ \cup {ataKey(ix)},
                    !.ixs = Append(@, ix)]

pushIfUnique(st, ix) ==
    IF ix.programId = ATA_PROGRAM_ID
    THEN IF ataKey(ix) \in st.seenATAs
         THEN st
         ELSE [st EXCEPT !.seenATAs = @ \cup {ataKey(ix)},
                         !.ixs = Append(@, ix)]
    ELSE IF genericKey(ix) \in st.seenGeneric
         THEN st
         ELSE [st EXCEPT !.seenGeneric = @ \cup {genericKey(ix)},
                         !.ixs = Append(@, ix)]

RECURSIVE PushAll(_, _)
PushAll(st, s) ==
    IF s = <<>> THEN st ELSE PushAll(pushIfUnique(st, Head(s)), Tail(s))

\* ctx.swapPayloads.find((x) => !!x.ixs.tokenLedgerInstruction)?.ixs.tokenLedgerInstruction
RECURSIVE tokenLedgerIx(_)
tokenLedgerIx(payloads) ==
    IF payloads = <<>> THEN NullJson
    ELSE IF Head(payloads).ixs.tokenLedgerInstruction # NullJson
         THEN Head(payloads).ixs.tokenLedgerInstruction
         ELSE tokenLedgerIx(Tail(payloads))

RECURSIVE computeBudgetIx(_)
computeBudgetIx(payloads) ==
    IF payloads = <<>> THEN <<>>
    ELSE MapToIx(Head(payloads).ixs.computeBudgetInstructions)
            \o computeBudgetIx(Tail(payloads))

cbKey(ix) == <<ix.programId, B64Encode(ix.data)>>

RECURSIVE FilterCB(_, _)
FilterCB(s, seenCB) ==
    IF s = <<>> THEN <<>>
    ELSE IF cbKey(Head(s)) \in seenCB
         THEN FilterCB(Tail(s), seenCB)
         ELSE <<Head(s)>> \o FilterCB(Tail(s), seenCB \cup {cbKey(Head(s))})

filteredCB(payloads) == FilterCB(computeBudgetIx(payloads), {})

Slice2(s) == SubSeq(s, 1, IF Len(s) < 2 THEN Len(s) ELSE 2)

PushComputeBudget(st, payloads) ==
    IF Len(filteredCB(payloads)) > 0
    THEN PushAll(st, Slice2(filteredCB(payloads)))
    ELSE pushIfUnique(st, setComputeUnitLimit(DefaultComputeUnits))

RECURSIVE SetupIxs(_)
SetupIxs(payloads) ==
    IF payloads = <<>> THEN <<>>
    ELSE MapToIx(Head(payloads).ixs.setupInstructions) \o SetupIxs(Tail(payloads))

RECURSIVE SwapIxs(_)
SwapIxs(payloads) ==
    IF payloads = <<>> THEN <<>>
    ELSE (IF Head(payloads).ixs.swapInstruction # NullJson
          THEN <<toIx(Head(payloads).ixs.swapInstruction)>>
          ELSE <<>>) \o SwapIxs(Tail(payloads))

RECURSIVE OtherIxs(_)
OtherIxs(payloads) ==
    IF payloads = <<>> THEN <<>>
    ELSE MapToIx(Head(payloads).ixs.otherInstructions) \o OtherIxs(Tail(payloads))

PushWrap(st, wraps) == PushAll(st, wraps)

PushTokenLedger(st, payloads) ==
    IF tokenLedgerIx(payloads) # NullJson
    THEN pushIfUnique(st, toIx(tokenLedgerIx(payloads)))
    ELSE st

PushSetup(st, payloads) == PushAll(st, SetupIxs(payloads))

PushSwap(st, payloads) == PushAll(st, SwapIxs(payloads))

PushOther(st, payloads) == PushAll(st, OtherIxs(payloads))

PushCleanup(st, cleanup) == IF cleanup # NullIx THEN pushIfUnique(st, cleanup) ELSE st

\* variant: the swap instructions are pushed before the setup instructions
AssembleInstructions_SwapFirst(wraps, payloads, cleanup) ==
    PushCleanup(
      PushOther(
        PushSetup(
          PushSwap(
            PushComputeBudget(
              PushTokenLedger(
                PushWrap(EmptyAsm, wraps),
                payloads),
              payloads),
            payloads),
          payloads),
        payloads),
      cleanup).ixs

\* the body of run() from its first push to its last, on the locals st
RunAssembler(st, wraps, payloads, cleanup) ==
    PushCleanup(
      PushOther(
        PushSwap(
          PushSetup(
            PushComputeBudget(
              PushTokenLedger(
                PushWrap(st, wraps),
                payloads),
              payloads),
            payloads),
          payloads),
        payloads),
      cleanup)

\* variant: the two sets outlive the invocation and the next one starts
\* from what the last one recorded
LocalsAtEntry_SetsKept(left) == [left EXCEPT !.ixs = <<>>]

\* `ixs`, `seenATAs` and `seenGeneric` are constructed on entry to run(),
\* whatever an earlier invocation left behind
LocalsAtEntry(left) == EmptyAsm

AssembleInstructions(wraps, payloads, cleanup) ==
    RunAssembler(LocalsAtEntry(EmptyAsm), wraps, payloads, cleanup).ixs

----------------------------------------------------------------------------
(* Input universe: accounts, instruction fragments and service responses   *)

Acc(pk, s, w) == [pubkey |-> pk, isSigner |-> s, isWritable |-> w]

JIx(p, accts, d) == [programId |-> p, accounts |-> accts, data |-> d]

TOKEN_PROGRAM == "TokenkegQfeZyiNwAJbNbGKPFXCWuBvf9Ss623VQ5DA"
JUP_PROGRAM == "JUP6LkbZbjS1jKKwapdHNy74zcZ3tLUZoi5QNyVTaV4"

AtaAccounts(ata, mint) ==
    <<Acc("User", TRUE, TRUE), Acc(ata, FALSE, TRUE),
      Acc("User", FALSE, FALSE), Acc(mint, FALSE, FALSE)>>

JAtaW == JIx(ATA_PROGRAM_ID, AtaAccounts("AtaW", SOL), "AQ==")
JAtaW0 == JIx(ATA_PROGRAM_ID, AtaAccounts("AtaW", SOL), "AA==")
JAtaU == JIx(ATA_PROGRAM_ID, AtaAccounts("AtaU", USDC), "AQ==")
JSync == JIx(TOKEN_PROGRAM, <<Acc("AtaW", FALSE, TRUE)>>, "EQ==")
JSyncNC == JIx(TOKEN_PROGRAM, <<Acc("AtaW", FALSE, TRUE)>>, "ER==")
JClose ==
    JIx(TOKEN_PROGRAM,
        <<Acc("AtaW", FALSE, TRUE), Acc("User", FALSE, TRUE), Acc("User", TRUE, FALSE)>>,
        "CQ==")
JSwapA == JIx(JUP_PROGRAM, <<Acc("User", TRUE, TRUE), Acc("PoolA", FALSE, TRUE)>>, "AQID")
JSwapARo == JIx(JUP_PROGRAM, <<Acc("User", FALSE, TRUE), Acc("PoolA", FALSE, TRUE)>>, "AQID")
JSwapB == JIx(JUP_PROGRAM, <<Acc("User", TRUE, TRUE), Acc("PoolB", FALSE, TRUE)>>, "AQID")
JLedger1 == JIx(JUP_PROGRAM, <<Acc("Ledger", FALSE, TRUE), Acc("AtaU", FALSE, FALSE)>>, "5A==")
JLedger2 == JIx(JUP_PROGRAM, <<Acc("Ledger", FALSE, TRUE), Acc("AtaW", FALSE, FALSE)>>, "5Q==")
JLimitA == JIx(COMPUTE_BUDGET_PROGRAM_ID, <<>>, "AsBcFQA=")
JLimitB == JIx(COMPUTE_BUDGET_PROGRAM_ID, <<>>, "AsAnCQA=")
JLimit1M == JIx(COMPUTE_BUDGET_PROGRAM_ID, <<>>, "AkBCDwA=")
JPriceA == JIx(COMPUTE_BUDGET_PROGRAM_ID, <<>>, "A4gTAAAAAAAA")
JPriceB == JIx(COMPUTE_BUDGET_PROGRAM_ID, <<>>, "AwEAAAAAAAAA")

\* (tokenLedgerInstruction, computeBudgetInstructions) of a response
HeadOptions ==
    { <<NullJson, <<>>>>,
      <<NullJson, <<JLimitA>>>>,
      <<JLedger1, <<JLimitA, JPriceA>>>>,
      <<JLedger2, <<JLimitB, JPriceB, JLimit1M>>>> }

\* (setupInstructions, swapInstruction, otherInstructions) of a response
BodyOptions ==
    { <<<<>>, JSwapA, <<>>>>,
      <<<<JAtaW, JAtaU>>, JSwapA, <<JSync>>>>,
      <<<<JAtaW0, JSyncNC>>, JSwapB, <<>>>>,
      <<<<JSwapARo>>, NullJson, <<JSwapA>>>>,
      <<<<JLimitB, JAtaU>>, JSwapB, <<JClose>>>>,
      <<<<JAtaU>>, JSwapARo, <<JLedger2>>>> }

MkSwapIxs(h, b, alts) ==
    [tokenLedgerInstruction |-> h[1],
     computeBudgetInstructions |-> h[2],
     setupInstructions |-> b[1],
     swapInstruction |-> b[2],
     otherInstructions |-> b[3],
     cleanupInstruction |-> NullJson,
     addressLookupTableAddresses |-> alts]

\* responses given to the assembler on its own
AsmResponses == { MkSwapIxs(h, b, <<>>) : h \in HeadOptions, b \in BodyOptions }

\* what the wrap planner can have left in ctx.wrapInstrs / ctx.cleanupInstr
WrapOptions ==
    { <<>>,
      MapToIx(<<JAtaW, JSync>>),
      MapToIx(<<JAtaW0, JLimitA>>),
      MapToIx(<<JSwapARo, JLedger1>>),
      MapToIx(<<JLimit1M, JSync>>) }

CleanupOptions == { NullIx, toIx(JClose) }

\* responses of getSwapInstructions in the pipeline
SwapResponses ==
    { MkSwapIxs(<<NullJson, <<>>>>, <<<<>>, JSwapA, <<>>>>, <<>>),
      MkSwapIxs(<<JLedger1, <<JLimitA, JPriceA>>>>,
                <<<<JAtaW, JAtaU>>, JSwapA, <<JSync>>>>, <<"Alt1", "Alt2">>),
      MkSwapIxs(<<JLedger2, <<JLimitB>>>>,
                <<<<JAtaU>>, JSwapB, <<>>>>, <<"Alt2">>) }

----------------------------------------------------------------------------
(* JSON values as the schemas see them: each value carries its type *)

Absent == [t |-> "undefined"]
Null == [t |-> "null"]
Str(s) == [t |-> "string", s |-> s]
Num(n) == [t |-> "number", n |-> n]
Bool(b) == [t |-> "boolean", b |-> b]
Arr(a) == [t |-> "array", a |-> a]
Obj(o) == [t |-> "object", o |-> o]

\* x[k], undefined when the key is missing
Field(x, k) == IF k \in DOMAIN x.o THEN x.o[k] ELSE Absent

\* the outcome of a schema: the parsed value, or a ZodError
Ok(v) == [ok |-> TRUE, value |-> v]
ZodError == [ok |-> FALSE, value |-> Absent]

\* z.object({ pubkey, isSigner, isWritable }): unknown keys are stripped
AccountMetaSchema(x) ==
    IF /\ x.t = "object"
       /\ Field(x, "pubkey").t = "string"
       /\ Field(x, "isSigner").t = "boolean"
       /\ Field(x, "isWritable").t = "boolean"
    THEN Ok(Obj([k \in {"pubkey", "isSigner", "isWritable"} |-> x.o[k]]))
    ELSE ZodError

\* z.array(AccountMetaSchema)
AccountsSchema(x) ==
    IF /\ x.t = "array"
       /\ \A n \in 1..Len(x.a) : AccountMetaSchema(x.a[n]).ok
    THEN Ok(Arr([n \in 1..Len(x.a) |-> AccountMetaSchema(x.a[n]).value]))
    ELSE ZodError

\* z.object({ programId, accounts, data }): unknown keys are stripped
SerializedIxSchema(x) ==
    IF /\ x.t = "object"
       /\ Field(x, "programId").t = "string"
       /\ AccountsSchema(Field(x, "accounts")).ok
       /\ Field(x, "data").t = "string"
    THEN Ok(Obj([k \in {"programId", "accounts", "data"} |->
                    IF k = "accounts" THEN AccountsSchema(x.o[k]).value ELSE x.o[k]]))
    ELSE ZodError

\* z.array(SerializedIxSchema).optional()
OptionalIxArray(x) ==
    IF x = Absent THEN Ok(Absent)
    ELSE IF /\ x.t = "array"
            /\ \A n \in 1..Len(x.a) : SerializedIxSchema(x.a[n]).ok
         THEN Ok(Arr([n \in 1..Len(x.a) |-> SerializedIxSchema(x.a[n]).value]))
         ELSE ZodError

\* variant: null is not accepted for a single instruction
OptionalNullableIx_NotNullable(x) ==
    IF x = Absent THEN Ok(Absent) ELSE SerializedIxSchema(x)

\* SerializedIxSchema.optional().nullable()
OptionalNullableIx(x) ==
    IF x = Absent THEN Ok(Absent)
    ELSE IF x = Null THEN Ok(Null)
    ELSE SerializedIxSchema(x)

\* z.array(z.string()).optional()
OptionalStringArray(x) ==
    IF x = Absent THEN Ok(Absent)
    ELSE IF /\ x.t = "array"
            /\ \A n \in 1..Len(x.a) : x.a[n].t = "string"
         THEN Ok(x)
         ELSE ZodError

\* the keys of the object schema
SwapIxsKeys ==
    {"otherInstructions", "computeBudgetInstructions", "setupInstructions",
     "swapInstruction", "cleanupInstruction", "addressLookupTableAddresses"}

\* the schema of each key
SwapIxsShape(k, x) ==
    CASE k \in {"otherInstructions", "computeBudgetInstructions", "setupInstructions"}
            -> OptionalIxArray(x)
      [] k \in {"swapInstruction", "cleanupInstruction"} -> OptionalNullableIx(x)
      [] k = "addressLookupTableAddresses" -> OptionalStringArray(x)

\* z.object({...}).passthrough(): unknown keys are kept as they are
SwapIxsSchema(x) ==
    IF /\ x.t = "object"
       /\ \A k \in SwapIxsKeys : SwapIxsShape(k, Field(x, k)).ok
    THEN Ok(Obj([k \in DOMAIN x.o |->
                    IF k \in SwapIxsKeys THEN SwapIxsShape(k, x.o[k]).value ELSE x.o[k]]))
    ELSE ZodError

\* SwapIxsSchema.parse(raw) at the end of getSwapInstructions
ParseSwapIxs ==
    /\ parsed = <<>>
    /\ http = <<>>
    /\ body # Absent
    /\ parsed' = <<SwapIxsSchema(body)>>
    /\ UNCHANGED <<body, http, rawRoutes, norm, queries, wrapRequests, routes, onRouteNotFound, params,
                   task, thrown, swapRequests, swapPayloads, skipped, wrapInstrs,
                   cleanupInstr, wrappedLamports, instructions, assembled, altAccounts,
                   altQueries, serialized, result, error, pc>>

----------------------------------------------------------------------------
(* Errors *)

Msg(text, args) == [text |-> text, args |-> args]

NoError ==
    [name |-> "none", message |-> Msg("", <<>>), errorCode |-> "undefined",
     thrownBy |-> <<>>]

\* the error object e as the pipeline's outcome, with who threw it
Thrown(e, who) ==
    [name |-> e.name, message |-> e.message, errorCode |-> e.errorCode,
     thrownBy |-> who]

JupiterApiError(status, code) ==
    [name |-> "JupiterApiError",
     message |-> Msg("Quote HTTP", <<status>>),
     errorCode |-> code]

PlainError(text, args) ==
    [name |-> "Error", message |-> Msg(text, args), errorCode |-> "undefined"]

\* what provider.getQuote can throw
QuoteErrors ==
    { JupiterApiError(400, COULD_NOT_FIND_ANY_ROUTE),
      JupiterApiError(400, "TOKEN_NOT_TRADABLE"),
      JupiterApiError(500, "undefined"),
      PlainError("Quote JSON parse error", <<>>),
      [PlainError("provider error", <<>>) EXCEPT !.errorCode = COULD_NOT_FIND_ANY_ROUTE] }

\* what provider.getSwapInstructions can throw
IxsErrors == { PlainError("swap-instructions HTTP", <<400>>) }

\* variant: the error code alone decides, without the instanceof test
IsRouteNotFound_CodeOnly(e) == e.errorCode = COULD_NOT_FIND_ANY_ROUTE

IsRouteNotFound(e) ==
    e.name = "JupiterApiError" /\ e.errorCode = COULD_NOT_FIND_ANY_ROUTE

----------------------------------------------------------------------------
(* The context the pipeline starts from *)

Route(side, inputMint, outputMint, amount, uiAmount) ==
    [side |-> side, inputMint |-> inputMint, outputMint |-> outputMint,
     amount |-> amount, uiAmount |-> uiAmount, slippageBps |-> 50]

BuyRoute == Route("buy", SOL, USDC, Big(1000000), "undefined")

SellRoute == Route("sell", USDC, SOL, Big(25), "undefined")

\* 2^53 + 1 lamports
BuyRouteLarge == Route("buy", SOL, USDC, <<67108864, 1>>, "undefined")

RouteLists(n) ==
    { [i \in 1..n |-> IF i % 2 = 0 THEN SellRoute
                      ELSE IF i = 1 THEN BuyRoute ELSE BuyRouteLarge],
      [i \in 1..n |-> SellRoute] }

\* .filter(...).reduce((sum, r) => sum + Number(r.amount), sum)
RECURSIVE SumLamports(_, _)
SumLamports(rs, sum) ==
    IF rs = <<>> THEN sum
    ELSE SumLamports(Tail(rs),
            IF Head(rs).side # "sell" /\ Head(rs).inputMint = SOL
            THEN NumberAdd(sum, Number(Head(rs).amount))
            ELSE sum)

\* WrapSolStep: the local totalLamports
totalLamports(rs) == SumLamports(rs, Zero)

Indices == 0..(Len(routes) - 1)

NotSerialized == [attempted |-> FALSE, ok |-> FALSE, length |-> 0]

NoResult == [unsignedTx |-> "undefined"]

\* the order in which the pipeline runs its steps
NextStep(s) ==
    CASE s = "normalize" -> "wrapSol"
      [] s = "wrapSol" -> "swap"
      [] s = "swap" -> "assemble"
      [] s = "assemble" -> "resolveAlt"
      [] s = "resolveAlt" -> "finalize"
      [] s = "finalize" -> "done"

\* a route's callback of NormalizeRoutesStep.run: where it is, its locals
\* decimals, baseStr and onchainBalance, and the amount it returns
Callback(at, amount) ==
    [at |-> at, decimals |-> 0, baseStr |-> Undefined, onchainBalance |-> Zero,
     amount |-> amount]

\* the fields of a fresh context that the steps fill in
EmptyContext ==
    /\ body = Absent
    /\ parsed = <<>>
    /\ http = <<>>
    /\ task = [i \in Indices |-> "idle"]
    /\ thrown = [i \in Indices |-> NoError]
    /\ swapRequests = [i \in Indices |-> <<>>]
    /\ queries = [i \in Indices |-> <<>>]
    /\ wrapRequests = <<>>
    /\ swapPayloads = <<>>
    /\ skipped = <<>>
    /\ wrappedLamports = Zero
    /\ wrapInstrs = <<>>
    /\ cleanupInstr = NullIx
    /\ instructions = <<>>
    /\ assembled = <<>>
    /\ altAccounts = <<>>
    /\ altQueries = <<>>
    /\ serialized = NotSerialized
    /\ result = NoResult
    /\ error = NoError

\* the pipeline from the Wrap Planner on: the routes carry explicit amounts,
\* which NormalizeRoutesStep has returned as they were
Init ==
    /\ \E n \in 0..MaxRoutes : routes \in RouteLists(n)
    /\ rawRoutes = routes
    /\ norm = [i \in Indices |-> Callback("done", routes[i + 1].amount)]
    /\ onRouteNotFound \in {"skip", "fail"}
    /\ params = [onRouteNotFound |-> onRouteNotFound]
    /\ EmptyContext
    /\ pc = "wrapSol"

----------------------------------------------------------------------------
(* NormalizeRoutesStep.run: one async callback per route, joined by        *)
(* Promise.all                                                             *)

IsSellUi(r) == r.side = "sell" /\ r.uiAmount # "undefined" /\ r.amount = Undefined

IsBuySolUi(r) ==
    r.side # "sell" /\ r.inputMint = SOL /\ r.uiAmount # "undefined" /\ r.amount = Undefined

MissingAmount(idx) == PlainError("order[] missing amount/uiAmount", <<idx>>)

\* variant: a route with an amount and a user-facing amount is converted
StartCallback_PrefersUi(r) ==
    IF r.side = "sell" /\ r.uiAmount # "undefined"
    THEN Callback("getTokenSupply", Undefined)
    ELSE IF r.side # "sell" /\ r.inputMint = SOL /\ r.uiAmount # "undefined"
    THEN Callback("done", solToLamports(r.uiAmount))
    ELSE IF r.amount # Undefined THEN Callback("done", r.amount)
    ELSE Callback("failed", Undefined)

\* the callback up to its first await, its return or its throw
StartCallback(r) ==
    IF IsSellUi(r) THEN Callback("getTokenSupply", Undefined)
    ELSE IF IsBuySolUi(r) THEN Callback("done", solToLamports(r.uiAmount))
    ELSE IF r.amount # Undefined THEN Callback("done", r.amount)
    ELSE Callback("failed", Undefined)

\* the answers of the ledger
Decimals == {6, 9}
Balances == {Big(400000), Big(3000000)}

\* the callbacks that throw before any await reject first, lowest index first
NormalizeRoutesStep ==
    /\ pc = "normalize"
    /\ norm' = [i \in Indices |-> StartCallback(routes[i + 1])]
    /\ queries' = [i \in Indices |->
                     IF norm'[i].at = "getTokenSupply" THEN <<"getTokenSupply">> ELSE <<>>]
    /\ LET throwers == { i \in Indices : norm'[i].at = "failed" }
           first == CHOOSE i \in throwers : \A j \in throwers : i <= j
       IN IF throwers # {}
          THEN /\ pc' = "failed"
               /\ error' = Thrown(MissingAmount(first),
                                  <<"NormalizeRoutesStep", "order", first>>)
          ELSE /\ pc' = "normalizing"
               /\ UNCHANGED error
    /\ UNCHANGED <<body, parsed, http, rawRoutes, wrapRequests, routes, onRouteNotFound, params, task, thrown, swapRequests,
                   swapPayloads, skipped, wrapInstrs, cleanupInstr, wrappedLamports,
                   instructions, assembled, altAccounts, altQueries, serialized, result>>

NormFrame ==
    UNCHANGED <<body, parsed, http, rawRoutes, wrapRequests, routes, onRouteNotFound, params, task, thrown, swapRequests,
                swapPayloads, skipped, wrapInstrs, cleanupInstr, wrappedLamports,
                instructions, assembled, altAccounts, altQueries, serialized, result>>

\* conn.getTokenSupply returns
SupplyReturns(i, decimals) ==
    /\ norm[i].at = "getTokenSupply"
    /\ norm' = [norm EXCEPT ![i].at = "getTokenAccountsByOwner",
                            ![i].decimals = decimals,
                            ![i].baseStr = uiToBaseUnits(routes[i + 1].uiAmount, decimals)]
    /\ queries' = [queries EXCEPT ![i] = Append(@, "getTokenAccountsByOwner")]
    /\ UNCHANGED <<pc, error>>
    /\ NormFrame

\* variant: the converted amount is returned unclamped
safeAmount_Unclamped(baseStr, onchainBalance) == baseStr

\* BigInt(baseStr) > onchainBalance ? onchainBalance : BigInt(baseStr)
safeAmount(baseStr, onchainBalance) ==
    IF BigLess(onchainBalance, baseStr) THEN onchainBalance ELSE baseStr

\* conn.getTokenAccountsByOwner returns: no account, or a first account
AccountsReturns(i, found) ==
    /\ norm[i].at = "getTokenAccountsByOwner"
    /\ IF found
       THEN /\ norm' = [norm EXCEPT ![i].at = "getTokenAccountBalance"]
            /\ queries' = [queries EXCEPT ![i] = Append(@, "getTokenAccountBalance")]
       ELSE /\ norm' = [norm EXCEPT ![i].at = "done",
                                    ![i].amount = safeAmount(norm[i].baseStr, Zero)]
            /\ UNCHANGED queries
    /\ UNCHANGED <<pc, error>>
    /\ NormFrame

\* conn.getTokenAccountBalance returns
BalanceReturns(i, balance) ==
    /\ norm[i].at = "getTokenAccountBalance"
    /\ norm' = [norm EXCEPT ![i].at = "done",
                            ![i].onchainBalance = balance,
                            ![i].amount = safeAmount(norm[i].baseStr, balance)]
    /\ UNCHANGED <<queries, pc, error>>
    /\ NormFrame

\* one of the three queries rejects: Promise.all rejects with the first
\* rejection; the other callbacks keep running
QueryThrows(i) ==
    /\ norm[i].at \in {"getTokenSupply", "getTokenAccountsByOwner", "getTokenAccountBalance"}
    /\ norm' = [norm EXCEPT ![i].at = "failed"]
    /\ IF pc = "normalizing"
       THEN /\ pc' = "failed"
            /\ error' = Thrown(PlainError("ledger query failed", <<norm[i].at>>),
                               <<"NormalizeRoutesStep", "order", i>>)
       ELSE UNCHANGED <<pc, error>>
    /\ UNCHANGED queries
    /\ NormFrame

\* Promise.all fulfils: ctx.routes becomes the array of returned routes
NormalizeJoin ==
    /\ pc = "normalizing"
    /\ \A i \in Indices : norm[i].at = "done"
    /\ routes' = [k \in 1..Len(routes) |->
                    [routes[k] EXCEPT !.amount = norm[k - 1].amount]]
    /\ pc' = NextStep("normalize")
    /\ UNCHANGED <<body, parsed, http, rawRoutes, norm, queries, wrapRequests, onRouteNotFound, params, task, thrown, swapRequests,
                   swapPayloads, skipped, wrapInstrs, cleanupInstr, wrappedLamports,
                   instructions, assembled, altAccounts, altQueries, serialized, result, error>>

----------------------------------------------------------------------------
(* WrapSolStep.run *)

QuoteRequest(inputMint, outputMint, amount, slippageBps) ==
    [call |-> "getQuote", inputMint |-> inputMint, outputMint |-> outputMint,
     amount |-> amount, slippageBps |-> slippageBps, swapMode |-> "ExactIn"]

SwapInstructionsRequest(quoteResponse, wrapAndUnwrapSol) ==
    [call |-> "getSwapInstructions", userPublicKey |-> "User",
     quoteResponse |-> quoteResponse, wrapAndUnwrapSol |-> wrapAndUnwrapSol,
     dynamicComputeUnitLimit |-> TRUE, prioritizationFeeLamports |-> "auto"]

\* responses of getSwapInstructions to the wrap planner
WrapResponses ==
    { MkSwapIxs(<<NullJson, <<>>>>, <<<<>>, JSwapA, <<>>>>, <<>>),
      [MkSwapIxs(<<NullJson, <<JLimitA>>>>, <<<<JAtaW, JSync>>, JSwapA, <<>>>>, <<"Alt1">>)
         EXCEPT !.cleanupInstruction = JClose] }

WrapFrame ==
    UNCHANGED <<body, parsed, http, rawRoutes, norm, queries, routes, onRouteNotFound, params, task, thrown, swapRequests,
                swapPayloads, skipped, instructions, assembled, altAccounts, altQueries, serialized, result>>

\* variant: the wrap request is issued whatever the total
NeedsWrap_Always(total) == TRUE

\* totalLamports > 0
NeedsWrap(total) == BigLess(Zero, total)

\* run() up to its first await, or to its end when there is nothing to wrap
WrapSolStep ==
    /\ pc = "wrapSol"
    /\ wrappedLamports' = totalLamports(routes)
    /\ IF NeedsWrap(totalLamports(routes))
       THEN /\ wrapRequests' =
                    Append(wrapRequests, QuoteRequest(SOL, USDC, totalLamports(routes), 1))
            /\ pc' = "wrapSol:getQuote"
       ELSE /\ pc' = NextStep("wrapSol")
            /\ UNCHANGED wrapRequests
    /\ UNCHANGED <<wrapInstrs, cleanupInstr, error>>
    /\ WrapFrame

WrapQuoteReturns ==
    /\ pc = "wrapSol:getQuote"
    /\ wrapRequests' = Append(wrapRequests, SwapInstructionsRequest("dummyQuote", TRUE))
    /\ pc' = "wrapSol:getSwapInstructions"
    /\ UNCHANGED <<wrapInstrs, cleanupInstr, wrappedLamports, error>>
    /\ WrapFrame

WrapQuoteThrows(e) ==
    /\ pc = "wrapSol:getQuote"
    /\ pc' = "failed"
    /\ error' = Thrown(e, <<"WrapSolStep">>)
    /\ UNCHANGED <<wrapRequests, wrapInstrs, cleanupInstr, wrappedLamports>>
    /\ WrapFrame

WrapIxsReturns(swapIxs) ==
    /\ pc = "wrapSol:getSwapInstructions"
    /\ wrapInstrs' = IF Len(swapIxs.setupInstructions) > 0
                     THEN MapToIx(swapIxs.setupInstructions)
                     ELSE wrapInstrs
    /\ cleanupInstr' = IF swapIxs.cleanupInstruction # NullJson
                       THEN toIx(swapIxs.cleanupInstruction)
                       ELSE cleanupInstr
    /\ pc' = NextStep("wrapSol")
    /\ UNCHANGED <<wrapRequests, wrappedLamports, error>>
    /\ WrapFrame

WrapIxsThrows(e) ==
    /\ pc = "wrapSol:getSwapInstructions"
    /\ pc' = "failed"
    /\ error' = Thrown(e, <<"WrapSolStep">>)
    /\ UNCHANGED <<wrapRequests, wrapInstrs, cleanupInstr, wrappedLamports>>
    /\ WrapFrame

----------------------------------------------------------------------------
(* SwapStep.run: one async callback per route, joined by Promise.all *)

\* variant: every rejection replaces the error run() ends with
Reject_LastWins(i, e) ==
    /\ task' = [task EXCEPT ![i] = "failed"]
    /\ pc' = "failed"
    /\ error' = Thrown(e, <<"route", i>>)
    /\ UNCHANGED <<swapPayloads, skipped>>

\* a callback threw: Promise.all rejects with the first rejection, and
\* run() ends with it; later rejections are ignored
Reject(i, e) ==
    /\ task' = [task EXCEPT ![i] = "failed"]
    /\ IF pc = "swap"
       THEN pc' = "failed" /\ error' = Thrown(e, <<"route", i>>)
       ELSE UNCHANGED <<pc, error>>
    /\ UNCHANGED <<swapPayloads, skipped>>

\* variant: the skip branch returns without recording the route
Catch_DropsSkipRecord(i, e) ==
    IF IsRouteNotFound(e) /\ onRouteNotFound = "skip"
    THEN /\ task' = [task EXCEPT ![i] = "skipped"]
         /\ UNCHANGED <<swapPayloads, skipped, pc, error>>
    ELSE Reject(i, e)

\* variant: a no-route failure is skipped whatever the policy
Catch_IgnoresPolicy(i, e) ==
    IF IsRouteNotFound(e)
    THEN /\ skipped' = Append(skipped,
                [index |-> i, reason |-> e.message, code |-> e.errorCode])
         /\ task' = [task EXCEPT ![i] = "skipped"]
         /\ UNCHANGED <<swapPayloads, pc, error>>
    ELSE Reject(i, e)

\* the catch block of the callback
Catch(i, e) ==
    IF IsRouteNotFound(e) /\ onRouteNotFound = "skip"
    THEN /\ skipped' = Append(skipped,
                [index |-> i, reason |-> e.message, code |-> e.errorCode])
         /\ task' = [task EXCEPT ![i] = "skipped"]
         /\ UNCHANGED <<swapPayloads, pc, error>>
    ELSE Reject(i, e)

Frame == UNCHANGED <<body, parsed, http, rawRoutes, norm, queries, wrapRequests, routes, onRouteNotFound, params,
                     wrapInstrs, cleanupInstr, wrappedLamports, instructions, assembled,
                     altAccounts, altQueries, serialized, result>>

\* the getQuote request of the callback of route r
RouteQuoteRequest(r) == QuoteRequest(r.inputMint, r.outputMint, r.amount, r.slippageBps)

\* the quote the provider returns to callback i for its request
QuoteResponse(i, request) ==
    [inputMint |-> request.inputMint, outputMint |-> request.outputMint,
     inAmount |-> request.amount, swapMode |-> request.swapMode,
     slippageBps |-> request.slippageBps, returnedTo |-> i]

\* variant: the per-route request lets the provider wrap and unwrap
RouteIxsRequest_Wrapping(q) == SwapInstructionsRequest(q, TRUE)

\* the getSwapInstructions request of a callback holding the quote q
RouteIxsRequest(q) == SwapInstructionsRequest(q, FALSE)

\* run() calls the callback of every route, each up to its getQuote
SwapStepStart ==
    /\ pc = "swap"
    /\ \A i \in Indices : task[i] = "idle"
    /\ swapPayloads' = <<>>
    /\ skipped' = <<>>
    /\ task' = [i \in Indices |-> "quote"]
    /\ swapRequests' = [i \in Indices |-> <<RouteQuoteRequest(routes[i + 1])>>]
    /\ UNCHANGED <<thrown, pc, error>>
    /\ Frame

QuoteReturns(i) ==
    /\ task[i] = "quote"
    /\ task' = [task EXCEPT ![i] = "ixs"]
    /\ swapRequests' = [swapRequests EXCEPT
            ![i] = Append(@, RouteIxsRequest(QuoteResponse(i, @[1])))]
    /\ UNCHANGED <<thrown, swapPayloads, skipped, pc, error>>
    /\ Frame

QuoteThrows(i, e) ==
    /\ task[i] = "quote"
    /\ thrown' = [thrown EXCEPT ![i] = Thrown(e, <<"route", i>>)]
    /\ UNCHANGED swapRequests
    /\ Catch(i, e)
    /\ Frame

IxsReturns(i, ixs) ==
    /\ task[i] = "ixs"
    /\ swapPayloads' = Append(swapPayloads, [i |-> i, ixs |-> ixs])
    /\ task' = [task EXCEPT ![i] = "done"]
    /\ UNCHANGED <<thrown, swapRequests, skipped, pc, error>>
    /\ Frame

IxsThrows(i, e) ==
    /\ task[i] = "ixs"
    /\ thrown' = [thrown EXCEPT ![i] = Thrown(e, <<"route", i>>)]
    /\ UNCHANGED swapRequests
    /\ Catch(i, e)
    /\ Frame

RECURSIVE SkippedIndices(_)
SkippedIndices(sk) ==
    IF sk = <<>> THEN <<>> ELSE <<Head(sk).index>> \o SkippedIndices(Tail(sk))

\* variant: the message never lists the skipped indices
NoExecutableRoute_NoIndices(sk) == PlainError("No executable route.", <<>>)

NoExecutableRoute(sk) ==
    IF Len(sk) > 0
    THEN PlainError("No executable route. Skipped indices: ", SkippedIndices(sk))
    ELSE PlainError("No executable route.", <<>>)

\* Promise.all fulfils once every callback has returned
SwapStepJoin ==
    /\ pc = "swap"
    /\ \A i \in Indices : task[i] \in {"done", "skipped"}
    /\ IF Len(swapPayloads) = 0
       THEN pc' = "failed" /\ error' = Thrown(NoExecutableRoute(skipped), <<"SwapStep">>)
       ELSE pc' = NextStep("swap") /\ UNCHANGED error
    /\ UNCHANGED <<task, thrown, swapRequests, swapPayloads, skipped>>
    /\ Frame

----------------------------------------------------------------------------
(* AssembleInstructionsStep.run *)

AssembleInstructionsStep ==
    /\ pc = "assemble"
    /\ instructions' = AssembleInstructions(wrapInstrs, swapPayloads, cleanupInstr)
    /\ assembled' = Append(assembled, instructions')
    /\ pc' = NextStep("assemble")
    /\ UNCHANGED <<body, parsed, http, rawRoutes, norm, queries, wrapRequests, routes, onRouteNotFound, params, task, thrown, swapRequests, swapPayloads, skipped, wrapInstrs,
                   cleanupInstr, wrappedLamports, altAccounts, altQueries, serialized, result, error>>

\* run() called once more on the context it has already filled
AssembleInstructionsStepAgain ==
    /\ pc = "resolveAlt"
    /\ Len(assembled) = 1
    /\ LET left == RunAssembler(LocalsAtEntry(EmptyAsm), wrapInstrs, swapPayloads, cleanupInstr)
       IN instructions' = RunAssembler(LocalsAtEntry(left), wrapInstrs, swapPayloads,
                                       cleanupInstr).ixs
    /\ assembled' = Append(assembled, instructions')
    /\ UNCHANGED <<body, parsed, http, rawRoutes, norm, queries, wrapRequests, routes, onRouteNotFound, params, task, thrown, swapRequests, swapPayloads, skipped, wrapInstrs,
                   cleanupInstr, wrappedLamports, altAccounts, altQueries, serialized, result, error, pc>>

----------------------------------------------------------------------------
(* ResolveAltStep.run *)

RECURSIVE AltRefs(_)
AltRefs(payloads) ==
    IF payloads = <<>> THEN <<>>
    ELSE Head(payloads).ixs.addressLookupTableAddresses \o AltRefs(Tail(payloads))

\* Array.from(new Set(s)): first occurrences, in order
RECURSIVE Distinct(_, _)
Distinct(s, seen) ==
    IF s = <<>> THEN <<>>
    ELSE IF Head(s) \in seen
         THEN Distinct(Tail(s), seen)
         ELSE <<Head(s)>> \o Distinct(Tail(s), seen \cup {Head(s)})

\* variant: the references are queried as they come, without the Set
altAddrs_NoSet(payloads) == AltRefs(payloads)

altAddrs(payloads) == Distinct(AltRefs(payloads), {})

\* .map((r) => r.value).filter(Boolean) over the answers of the ledger
RECURSIVE ResolvedTables(_, _, _)
ResolvedTables(addrs, answer, k) ==
    IF k > Len(addrs) THEN <<>>
    ELSE (IF answer[k] = "table" THEN <<[key |-> addrs[k]]>> ELSE <<>>)
            \o ResolvedTables(addrs, answer, k + 1)

\* every query is issued before the first answer is awaited
ResolveAltStep ==
    /\ pc = "resolveAlt"
    /\ \E answer \in [1..Len(altAddrs(swapPayloads)) -> {"table", "null", "throws"}] :
         /\ altQueries' = [k \in 1..Len(altAddrs(swapPayloads)) |->
                             [address |-> altAddrs(swapPayloads)[k], answer |-> answer[k]]]
         /\ IF \E k \in DOMAIN answer : answer[k] = "throws"
            THEN /\ pc' = "failed"
                 /\ error' = Thrown(PlainError("getAddressLookupTable failed", <<>>),
                                    <<"ResolveAltStep">>)
                 /\ UNCHANGED altAccounts
            ELSE /\ altAccounts' = ResolvedTables(altAddrs(swapPayloads), answer, 1)
                 /\ pc' = NextStep("resolveAlt")
                 /\ UNCHANGED error
    /\ UNCHANGED <<body, parsed, http, rawRoutes, norm, queries, wrapRequests, routes, onRouteNotFound, params, task, thrown, swapRequests, swapPayloads, skipped, wrapInstrs,
                   cleanupInstr, wrappedLamports, instructions, assembled, serialized, result>>

----------------------------------------------------------------------------
(* FinalizeTxStep.run *)

\* rawAlts.filter with the `seen` set: first table of each address
RECURSIVE mergedAlts(_, _)
mergedAlts(rawAlts, seen) ==
    IF rawAlts = <<>> THEN <<>>
    ELSE IF Head(rawAlts).key \in seen
         THEN mergedAlts(Tail(rawAlts), seen)
         ELSE <<Head(rawAlts)>> \o mergedAlts(Tail(rawAlts), seen \cup {Head(rawAlts).key})

\* unsignedTx.serialize(): it throws, or returns a buffer of some length
SerializeOutcomes ==
    { [attempted |-> TRUE, ok |-> FALSE, length |-> 0] }
    \cup { [attempted |-> TRUE, ok |-> TRUE, length |-> n] :
             n \in (MAX_TX_SIZE - SizeSlack)..(MAX_TX_SIZE + SizeSlack) }

\* the local `size` after the try/catch
sizeOf(ser) == IF ser.ok THEN ser.length ELSE -1

TooLarge(size) ==
    PlainError("Transaction too large: estimated size, limit", <<size, MAX_TX_SIZE>>)

\* the routes 1..k whose 0-based index is in S, in route order
RECURSIVE RoutesAmong(_, _)
RoutesAmong(k, S) ==
    IF k = 0 THEN <<>>
    ELSE RoutesAmong(k - 1, S) \o (IF (k - 1) \in S THEN <<routes[k]>> ELSE <<>>)

\* variant: wrappedLamports counts the executed routes only
BuildResult_WrapsExecuted(ser) ==
    [unsignedTx |->
        [payerKey |-> "User",
         instructions |-> instructions,
         addressTableLookups |-> mergedAlts(altAccounts, {})],
     base64 |-> <<"base64", sizeOf(ser)>>,
     diagnostics |->
        [skipped |-> skipped,
         executedCount |-> Len(swapPayloads),
         requestedCount |-> Len(routes),
         wrappedLamports |->
            totalLamports(RoutesAmong(Len(routes),
                { swapPayloads[k].i : k \in 1..Len(swapPayloads) })),
         altBefore |-> Len(altAccounts),
         altAfter |-> Len(mergedAlts(altAccounts, {})),
         altSaved |-> Len(altAccounts) - Len(mergedAlts(altAccounts, {})),
         txSize |-> sizeOf(ser),
         overLimit |-> FALSE]]

\* variant: executedCount counts the requested routes
BuildResult_CountsRequested(ser) ==
    [unsignedTx |->
        [payerKey |-> "User",
         instructions |-> instructions,
         addressTableLookups |-> mergedAlts(altAccounts, {})],
     base64 |-> <<"base64", sizeOf(ser)>>,
     diagnostics |->
        [skipped |-> skipped,
         executedCount |-> Len(routes),
         requestedCount |-> Len(routes),
         wrappedLamports |-> wrappedLamports,
         altBefore |-> Len(altAccounts),
         altAfter |-> Len(mergedAlts(altAccounts, {})),
         altSaved |-> Len(altAccounts) - Len(mergedAlts(altAccounts, {})),
         txSize |-> sizeOf(ser),
         overLimit |-> FALSE]]

BuildResult(ser) ==
    [unsignedTx |->
        [payerKey |-> "User",
         instructions |-> instructions,
         addressTableLookups |-> mergedAlts(altAccounts, {})],
     base64 |-> <<"base64", sizeOf(ser)>>,
     diagnostics |->
        [skipped |-> skipped,
         executedCount |-> Len(swapPayloads),
         requestedCount |-> Len(routes),
         wrappedLamports |-> wrappedLamports,
         altBefore |-> Len(altAccounts),
         altAfter |-> Len(mergedAlts(altAccounts, {})),
         altSaved |-> Len(altAccounts) - Len(mergedAlts(altAccounts, {})),
         txSize |-> sizeOf(ser),
         overLimit |-> FALSE]]

\* variant: a transaction of exactly the limit is refused
OverLimit_Inclusive(size) == size >= MAX_TX_SIZE \/ size = -1

\* the size check
OverLimit(size) == size > MAX_TX_SIZE \/ size = -1

FinalizeTxStep ==
    /\ pc = "finalize"
    /\ \/ \* getLatestBlockhash rejects
          /\ pc' = "failed"
          /\ error' = Thrown(PlainError("getLatestBlockhash failed", <<>>),
                             <<"FinalizeTxStep">>)
          /\ UNCHANGED <<serialized, result>>
       \/ \E ser \in SerializeOutcomes :
            /\ serialized' = ser
            /\ IF OverLimit(sizeOf(ser))
               THEN /\ pc' = "failed"
                    /\ error' = Thrown(TooLarge(sizeOf(ser)), <<"FinalizeTxStep">>)
                    /\ UNCHANGED result
               ELSE /\ result' = BuildResult(ser)
                    /\ pc' = NextStep("finalize")
                    /\ UNCHANGED error
    /\ UNCHANGED <<body, parsed, http, rawRoutes, norm, queries, wrapRequests, routes, onRouteNotFound, params, task, thrown, swapRequests, swapPayloads, skipped, wrapInstrs,
                   cleanupInstr, wrappedLamports, instructions, assembled, altAccounts, altQueries>>

----------------------------------------------------------------------------
(* The pipeline from the Wrap Planner on *)

Next ==
    \/ WrapSolStep
    \/ WrapQuoteReturns
    \/ \E e \in QuoteErrors : WrapQuoteThrows(e)
    \/ \E swapIxs \in WrapResponses : WrapIxsReturns(swapIxs)
    \/ \E e \in IxsErrors : WrapIxsThrows(e)
    \/ SwapStepStart
    \/ \E i \in Indices : QuoteReturns(i)
    \/ \E i \in Indices : \E e \in QuoteErrors : QuoteThrows(i, e)
    \/ \E i \in Indices : \E ixs \in SwapResponses : IxsReturns(i, ixs)
    \/ \E i \in Indices : \E e \in IxsErrors : IxsThrows(i, e)
    \/ SwapStepJoin
    \/ AssembleInstructionsStep
    \/ ResolveAltStep
    \/ FinalizeTxStep

Spec == Init /\ [][Next]_vars

----------------------------------------------------------------------------
(* The Instruction Assembler on its own: any wrap instructions, any list   *)
(* of payloads, any cleanup instruction                                    *)

PayloadLists(n) ==
    { [k \in 1..n |-> [i |-> k - 1, ixs |-> f[k]]] : f \in [1..n -> AsmResponses] }

InitAsm ==
    /\ \E n \in 1..MaxPayloads :
         /\ swapPayloads \in PayloadLists(n)
         /\ routes = [i \in 1..n |-> BuyRoute]
    /\ rawRoutes = routes
    /\ body = Absent
    /\ parsed = <<>>
    /\ http = <<>>
    /\ norm = [i \in Indices |-> Callback("done", routes[i + 1].amount)]
    /\ queries = [i \in Indices |-> <<>>]
    /\ wrapRequests = <<>>
    /\ onRouteNotFound = "skip"
    /\ params = [onRouteNotFound |-> onRouteNotFound]
    /\ task = [i \in Indices |-> "done"]
    /\ thrown = [i \in Indices |-> NoError]
    /\ swapRequests = [i \in Indices |->
            <<RouteQuoteRequest(routes[i + 1]),
              RouteIxsRequest(QuoteResponse(i, RouteQuoteRequest(routes[i + 1])))>>]
    /\ skipped = <<>>
    /\ wrappedLamports = totalLamports(routes)
    /\ wrapInstrs \in WrapOptions
    /\ cleanupInstr \in CleanupOptions
    /\ instructions = <<>>
    /\ assembled = <<>>
    /\ altAccounts = <<>>
    /\ altQueries = <<>>
    /\ serialized = NotSerialized
    /\ result = NoResult
    /\ error = NoError
    /\ pc = "assemble"

NextAsm ==
    \/ AssembleInstructionsStep
    \/ AssembleInstructionsStepAgain

SpecAsm == InitAsm /\ [][NextAsm]_vars

----------------------------------------------------------------------------
(* The pipeline from the caller's routes up to the start of the Route      *)
(* Resolver                                                                *)

RawRoutes ==
    { Route("buy", SOL, USDC, Big(1000000), "undefined"),
      Route("sell", USDC, SOL, Big(25), "0.5"),
      Route("sell", USDC, SOL, Undefined, "2.01"),
      Route("buy", SOL, USDC, Undefined, "0.5"),
      Route("undefined", SOL, USDC, Undefined, "2.01"),
      Route("undefined", SOL, USDC, Big(25), "0.5"),
      Route("buy", USDC, SOL, Undefined, "0.5"),
      Route("sell", USDC, SOL, Undefined, "undefined") }

InitNorm ==
    /\ \E n \in 0..MaxRawRoutes : rawRoutes \in [1..n -> RawRoutes]
    /\ routes = rawRoutes
    /\ norm = [i \in Indices |-> Callback("idle", Undefined)]
    /\ onRouteNotFound = "skip"
    /\ params = [onRouteNotFound |-> onRouteNotFound]
    /\ EmptyContext
    /\ pc = "normalize"

NextNorm ==
    \/ NormalizeRoutesStep
    \/ \E i \in Indices : \E decimals \in Decimals : SupplyReturns(i, decimals)
    \/ \E i \in Indices : \E found \in BOOLEAN : AccountsReturns(i, found)
    \/ \E i \in Indices : \E balance \in Balances : BalanceReturns(i, balance)
    \/ \E i \in Indices : QueryThrows(i)
    \/ NormalizeJoin
    \/ WrapSolStep
    \/ WrapQuoteReturns
    \/ \E e \in QuoteErrors : WrapQuoteThrows(e)
    \/ \E swapIxs \in WrapResponses : WrapIxsReturns(swapIxs)
    \/ \E e \in IxsErrors : WrapIxsThrows(e)
    \/ SwapStepStart

SpecNorm == InitNorm /\ [][NextNorm]_vars

----------------------------------------------------------------------------
(* buildMultiSwapTxV0: the stages in one function.  Its stages 0 to 4      *)
(* (normalization, total, wrap fetch, per-route quotes and instructions,   *)
(* the no-route check) take the steps of NormalizeRoutesStep, WrapSolStep  *)
(* and SwapStep, which SpecEquiv below checks against the function's own   *)
(* text, and run here as the actions above; its stages 5 to 7 follow.      *)

\* variant: an omitted policy means "fail"
PolicyOf_DefaultFail(p) ==
    IF p.onRouteNotFound = "undefined" THEN "fail" ELSE p.onRouteNotFound

\* const { ..., onRouteNotFound = "skip" } = params
PolicyOf(p) ==
    IF p.onRouteNotFound = "undefined" THEN "skip" ELSE p.onRouteNotFound

\* swapPayloads.map((x) => (x.ixs.computeBudgetInstructions ?? []).map(toIx))
RECURSIVE computeBudgetSets(_)
computeBudgetSets(payloads) ==
    IF payloads = <<>> THEN <<>>
    ELSE <<MapToIx(Head(payloads).ixs.computeBudgetInstructions)>>
            \o computeBudgetSets(Tail(payloads))

\* .sort((a, b) => b.length - a.length)[0] ?? []: the sort is stable, so
\* the first of the longest sets
RECURSIVE Richest(_, _)
Richest(sets, best) ==
    IF sets = <<>> THEN best
    ELSE Richest(Tail(sets), IF Len(Head(sets)) > Len(best) THEN Head(sets) ELSE best)

computeBudget(payloads) == Richest(computeBudgetSets(payloads), <<>>)

\* stage 5: the instructions are pushed as they come
Orchestrate(wraps, payloads, cleanup) ==
    wraps
      \o (IF tokenLedgerIx(payloads) # NullJson
          THEN <<toIx(tokenLedgerIx(payloads))>> ELSE <<>>)
      \o computeBudget(payloads)
      \o SetupIxs(payloads)
      \o SwapIxs(payloads)
      \o OtherIxs(payloads)
      \o (IF cleanup # NullIx THEN <<cleanup>> ELSE <<>>)

MonoFrame ==
    UNCHANGED <<body, parsed, http, rawRoutes, norm, queries, wrapRequests, routes, onRouteNotFound, params,
                task, thrown, swapRequests, swapPayloads, skipped, wrapInstrs,
                cleanupInstr, wrappedLamports, assembled>>

\* stage 5, and stage 6 up to its await: every query is issued
OrchestrateAndQuery ==
    /\ pc = "assemble"
    /\ instructions' = Orchestrate(wrapInstrs, swapPayloads, cleanupInstr)
    /\ altQueries' = [k \in 1..Len(altAddrs(swapPayloads)) |->
                        [address |-> altAddrs(swapPayloads)[k], answer |-> "pending"]]
    /\ pc' = "getAddressLookupTable"
    /\ UNCHANGED <<altAccounts, serialized, result, error>>
    /\ MonoFrame

\* conn.getAddressLookupTable returns a table, or a null value
TableReturns(k, answer) ==
    /\ k \in 1..Len(altQueries)
    /\ altQueries[k].answer = "pending"
    /\ altQueries' = [altQueries EXCEPT ![k].answer = answer]
    /\ UNCHANGED <<instructions, altAccounts, serialized, result, error, pc>>
    /\ MonoFrame

\* conn.getAddressLookupTable rejects: Promise.all rejects with the first
\* rejection, the other queries stay in flight
TableThrows(k) ==
    /\ k \in 1..Len(altQueries)
    /\ altQueries[k].answer = "pending"
    /\ altQueries' = [altQueries EXCEPT ![k].answer = "throws"]
    /\ IF pc = "getAddressLookupTable"
       THEN /\ pc' = "failed"
            /\ error' = Thrown(PlainError("getAddressLookupTable failed", <<>>),
                               <<"buildMultiSwapTxV0", "stage 6">>)
       ELSE UNCHANGED <<pc, error>>
    /\ UNCHANGED <<instructions, altAccounts, serialized, result>>
    /\ MonoFrame

\* variant: the first answer is enough to go on
TablesJoined_First == \E k \in 1..Len(altQueries) : altQueries[k].answer # "pending"

\* Promise.all fulfils once every query has returned
TablesJoined == \A k \in 1..Len(altQueries) : altQueries[k].answer \in {"table", "null"}

\* stage 6 after its await, and stage 7 up to its first await
TablesResolved ==
    /\ pc = "getAddressLookupTable"
    /\ TablesJoined
    /\ altAccounts' = ResolvedTables([k \in 1..Len(altQueries) |-> altQueries[k].address],
                                     [k \in 1..Len(altQueries) |-> altQueries[k].answer], 1)
    /\ pc' = "getLatestBlockhash"
    /\ UNCHANGED <<instructions, altQueries, serialized, result, error>>
    /\ MonoFrame

BlockhashThrows ==
    /\ pc = "getLatestBlockhash"
    /\ pc' = "failed"
    /\ error' = Thrown(PlainError("getLatestBlockhash failed", <<>>),
                       <<"buildMultiSwapTxV0", "stage 7">>)
    /\ UNCHANGED <<instructions, altAccounts, altQueries, serialized, result>>
    /\ MonoFrame

\* the value buildMultiSwapTxV0 returns
MonoResult(ser) ==
    [unsignedTx |->
        [payerKey |-> "User",
         instructions |-> instructions,
         addressTableLookups |-> altAccounts],
     base64 |-> <<"base64", sizeOf(ser)>>,
     diagnostics |->
        [skipped |-> skipped,
         executedCount |-> Len(swapPayloads),
         requestedCount |-> Len(routes),
         wrappedLamports |-> wrappedLamports]]

\* stage 7 after the blockhash: compile, serialize, return
CompileAndReturn(ser) ==
    /\ pc = "getLatestBlockhash"
    /\ serialized' = ser
    /\ IF ser.ok
       THEN /\ result' = MonoResult(ser)
            /\ pc' = "done"
            /\ UNCHANGED error
       ELSE /\ pc' = "failed"
            /\ error' = Thrown(PlainError("serialize failed", <<>>),
                               <<"buildMultiSwapTxV0", "stage 7">>)
            /\ UNCHANGED result
    /\ UNCHANGED <<instructions, altAccounts, altQueries>>
    /\ MonoFrame

\* what the caller passes
MonoRawRoutes ==
    { Route("sell", USDC, SOL, Undefined, "2.01"),
      Route("buy", SOL, USDC, Big(1000000), "undefined") }

MonoPolicies == {"skip", "fail", "undefined"}

MonoQuoteErrors ==
    { JupiterApiError(400, COULD_NOT_FIND_ANY_ROUTE),
      PlainError("Quote JSON parse error", <<>>) }

MonoResponses ==
    { MkSwapIxs(<<NullJson, <<>>>>, <<<<>>, JSwapA, <<>>>>, <<"Alt1">>),
      MkSwapIxs(<<JLedger1, <<JLimitA, JPriceA>>>>,
                <<<<JAtaW, JAtaU>>, JSwapA, <<JSync>>>>, <<"Alt1", "Alt2">>) }

InitMono ==
    /\ \E n \in 1..MaxMonoRoutes : rawRoutes \in [1..n -> MonoRawRoutes]
    /\ routes = rawRoutes
    /\ norm = [i \in Indices |-> Callback("idle", Undefined)]
    /\ params \in [onRouteNotFound : MonoPolicies]
    /\ onRouteNotFound = PolicyOf(params)
    /\ EmptyContext
    /\ pc = "normalize"

NextMono ==
    \/ NormalizeRoutesStep
    \/ \E i \in Indices : SupplyReturns(i, 6)
    \/ \E i \in Indices : \E found \in BOOLEAN : AccountsReturns(i, found)
    \/ \E i \in Indices : BalanceReturns(i, Big(400000))
    \/ \E i \in Indices : QueryThrows(i)
    \/ NormalizeJoin
    \/ WrapSolStep
    \/ WrapQuoteReturns
    \/ \E e \in MonoQuoteErrors : WrapQuoteThrows(e)
    \/ \E swapIxs \in WrapResponses : WrapIxsReturns(swapIxs)
    \/ \E e \in IxsErrors : WrapIxsThrows(e)
    \/ SwapStepStart
    \/ \E i \in Indices : QuoteReturns(i)
    \/ \E i \in Indices : \E e \in MonoQuoteErrors : QuoteThrows(i, e)
    \/ \E i \in Indices : \E ixs \in MonoResponses : IxsReturns(i, ixs)
    \/ \E i \in Indices : \E e \in IxsErrors : IxsThrows(i, e)
    \/ SwapStepJoin
    \/ OrchestrateAndQuery
    \/ \E k \in 1..Len(altQueries) : \E answer \in {"table", "null"} : TableReturns(k, answer)
    \/ \E k \in 1..Len(altQueries) : TableThrows(k)
    \/ TablesResolved
    \/ BlockhashThrows
    \/ \E ser \in SerializeOutcomes : CompileAndReturn(ser)

SpecMono == InitMono /\ [][NextMono]_vars

----------------------------------------------------------------------------
(* SwapIxsSchema on its own: any JSON body within the bounds *)

JMeta == Obj([pubkey |-> Str("User"), isSigner |-> Bool(TRUE), isWritable |-> Bool(TRUE)])

JGoodIx == Obj([programId |-> Str("JUP"), accounts |-> Arr(<<JMeta>>), data |-> Str("AAAA")])

\* instruction objects a body can hold
JsonIxs ==
    { JGoodIx,
      Obj([programId |-> Str("ComputeBudget"), accounts |-> Arr(<<>>), data |-> Str("AQID")]),
      Obj([accounts |-> Arr(<<JMeta>>), data |-> Str("AAAA")]),
      Obj([programId |-> Str("JUP"), data |-> Str("AAAA")]),
      Obj([programId |-> Str("JUP"), accounts |-> Arr(<<JMeta>>)]),
      Obj([programId |-> Str("JUP"), accounts |-> Arr(<<JMeta>>), data |-> Num(7)]),
      Obj([programId |-> Str("JUP"), data |-> Str("AAAA"),
           accounts |-> Arr(<<Obj([pubkey |-> Str("User"), isWritable |-> Bool(TRUE)])>>)]),
      Obj([programId |-> Str("JUP"), accounts |-> Arr(<<JMeta>>), data |-> Str("AAAA"),
           note |-> Str("v7")]) }

JsonIxArrays ==
    { Arr(a) : a \in UNION { [1..n -> JsonIxs] : n \in 0..MaxSchemaIxs } }

\* the values each key of a body can have; Absent is a missing key
JsonValues(k) ==
    CASE k = "setupInstructions" -> JsonIxArrays \cup {Absent, Null}
      [] k = "swapInstruction" -> JsonIxs \cup {Absent, Null}
      [] k = "cleanupInstruction" -> {Absent, Null, JGoodIx}
      [] k = "otherInstructions" -> {Absent, Arr(<<JGoodIx>>)}
      [] k = "computeBudgetInstructions" -> {Absent, Arr(<<>>)}
      [] k = "addressLookupTableAddresses" ->
            {Absent, Arr(<<Str("Alt1")>>), Arr(<<Str("Alt1"), Num(2)>>)}
      [] k = "tokenLedgerInstruction" -> {Absent, JGoodIx}

JsonKeys == SwapIxsKeys \cup {"tokenLedgerInstruction"}

\* the object with the keys of c whose value is not Absent
MkBody(c) == Obj([k \in { j \in JsonKeys : c[j] # Absent } |-> c[k]])

JsonBodies ==
    { MkBody([setupInstructions |-> a, swapInstruction |-> b, cleanupInstruction |-> c,
              otherInstructions |-> d, computeBudgetInstructions |-> e,
              addressLookupTableAddresses |-> f, tokenLedgerInstruction |-> g]) :
        a \in JsonValues("setupInstructions"),
        b \in JsonValues("swapInstruction"),
        c \in JsonValues("cleanupInstruction"),
        d \in JsonValues("otherInstructions"),
        e \in JsonValues("computeBudgetInstructions"),
        f \in JsonValues("addressLookupTableAddresses"),
        g \in JsonValues("tokenLedgerInstruction") }

InitSchema ==
    /\ body \in JsonBodies
    /\ parsed = <<>>
    /\ http = <<>>
    /\ rawRoutes = <<>>
    /\ routes = <<>>
    /\ norm = <<>>
    /\ onRouteNotFound = "skip"
    /\ params = [onRouteNotFound |-> onRouteNotFound]
    /\ task = <<>>
    /\ thrown = <<>>
    /\ swapRequests = <<>>
    /\ queries = <<>>
    /\ wrapRequests = <<>>
    /\ swapPayloads = <<>>
    /\ skipped = <<>>
    /\ wrappedLamports = Zero
    /\ wrapInstrs = <<>>
    /\ cleanupInstr = NullIx
    /\ instructions = <<>>
    /\ assembled = <<>>
    /\ altAccounts = <<>>
    /\ altQueries = <<>>
    /\ serialized = NotSerialized
    /\ result = NoResult
    /\ error = NoError
    /\ pc = "getSwapInstructions"

NextSchema == ParseSwapIxs

SpecSchema == InitSchema /\ [][NextSchema]_vars

----------------------------------------------------------------------------
(* The Jupiter client (getQuote, getSwapInstructions of lib/jupiter.ts)    *)
(* between the pipeline and the service: what the service answers over     *)
(* HTTP, and what the client makes of it.  JupiterProvider passes both     *)
(* calls through unchanged.                                                *)

\* a response body: whether it parses as JSON and, when it does, its
\* errorCode key, whether it has an `error` key, whether it has the keys
\* inputMint, outputMint and inAmount, whether the schema accepts it, and
\* the instruction set it carries
TextBody ==
    [json |-> FALSE, errorCode |-> "undefined", error |-> FALSE, complete |-> FALSE,
     valid |-> FALSE, payload |-> "undefined"]

JsonBody(code, hasError, complete, valid, payload) ==
    [json |-> TRUE, errorCode |-> code, error |-> hasError, complete |-> complete,
     valid |-> valid, payload |-> payload]

HttpResponse(statusCode, responseBody) == [statusCode |-> statusCode, body |-> responseBody]

\* a 200 whose body the schema accepts
Success(payload) == HttpResponse(200, JsonBody("undefined", FALSE, TRUE, TRUE, payload))

\* the service found no route for the request
NoRouteResponse ==
    HttpResponse(400, JsonBody(COULD_NOT_FIND_ANY_ROUTE, FALSE, FALSE, FALSE, "undefined"))

RateLimited == HttpResponse(429, TextBody)

ServerError == HttpResponse(500, JsonBody("undefined", TRUE, FALSE, FALSE, "undefined"))

\* the rate-limit and server-error statuses
Transient(res) == res.statusCode = 429 \/ res.statusCode \in 500..599

FailureResponses ==
    { NoRouteResponse,
      HttpResponse(400, JsonBody("TOKEN_NOT_TRADABLE", FALSE, FALSE, FALSE, "undefined")),
      RateLimited,
      ServerError,
      HttpResponse(200, TextBody),
      HttpResponse(200, JsonBody("undefined", TRUE, FALSE, FALSE, "undefined")),
      HttpResponse(200, JsonBody("undefined", FALSE, FALSE, FALSE, "undefined")),
      HttpResponse(200, JsonBody("undefined", FALSE, TRUE, FALSE, "undefined")) }

\* what the service answers to the successive requests of one call, were
\* they made: one response, or a transient response and then another
ServiceScripts(payloads) ==
    { <<res>> : res \in FailureResponses \cup { Success(p) : p \in payloads } }
    \cup { <<t, Success(p)>> : t \in {RateLimited, ServerError}, p \in payloads }
    \cup { <<RateLimited, RateLimited>> }

\* request(...) is called once per call of the client and its response is
\* read: there is no loop around it
ResponsesRead(script) == SubSeq(script, 1, 1)

ResponsesUnread(script) == SubSeq(script, 2, Len(script))

\* one call of the client: the responses it read and those the service
\* would have given to further requests
Exchange(call, script) ==
    [call |-> call, read |-> ResponsesRead(script), unread |-> ResponsesUnread(script)]

Returns(value) == [ok |-> TRUE, value |-> value, error |-> NoError]

Throws(e) == [ok |-> FALSE, value |-> "undefined", error |-> e]

ZodIssue == [name |-> "ZodError", message |-> Msg("invalid", <<>>), errorCode |-> "undefined"]

\* getQuote on the response res; quote is what QuoteSchema makes of a valid body
getQuote(res, quote) ==
    IF res.statusCode # 200
    THEN Throws(JupiterApiError(res.statusCode,
                    IF res.body.json THEN res.body.errorCode ELSE "undefined"))
    ELSE IF ~res.body.json THEN Throws(PlainError("Quote JSON parse error", <<>>))
    ELSE IF res.body.error THEN Throws(PlainError("Quote API error", <<>>))
    ELSE IF ~res.body.complete THEN Throws(PlainError("Quote shape unexpected", <<>>))
    ELSE IF ~res.body.valid THEN Throws(ZodIssue)
    ELSE Returns(quote)

\* getSwapInstructions on the response res
getSwapInstructions(res) ==
    IF res.statusCode # 200
    THEN Throws(PlainError("swap-instructions HTTP", <<res.statusCode>>))
    ELSE IF ~res.body.json THEN Throws(PlainError("swap-instructions JSON parse error", <<>>))
    ELSE IF res.body.error THEN Throws(PlainError("swap-instructions API error", <<>>))
    ELSE IF ~res.body.valid THEN Throws(ZodIssue)
    ELSE Returns(res.body.payload)

\* the response a call of the client ends on
LastRead(script) == ResponsesRead(script)[Len(ResponsesRead(script))]

\* the calls of the wrap planner and of each route's callback
NoExchanges == [wrap |-> <<>>, route |-> [i \in Indices |-> <<>>]]

ClientWrapFrame ==
    UNCHANGED <<body, parsed, rawRoutes, norm, queries, routes, onRouteNotFound, params,
                task, thrown, swapRequests, swapPayloads, wrappedLamports, instructions,
                assembled, altAccounts, altQueries, serialized, result>>

\* variant: the wrap planner records a no-route failure of its own request
\* as a skip and goes on
WrapRejects_SkipsNoRoute(e) ==
    /\ IF IsRouteNotFound(e) /\ onRouteNotFound = "skip"
       THEN /\ skipped' = Append(skipped,
                    [index |-> -1, reason |-> e.message, code |-> e.errorCode])
            /\ pc' = NextStep("wrapSol")
            /\ UNCHANGED error
       ELSE /\ pc' = "failed"
            /\ error' = Thrown(e, <<"WrapSolStep">>)
            /\ UNCHANGED skipped
    /\ UNCHANGED <<wrapRequests, wrapInstrs, cleanupInstr>>

\* WrapSolStep.run has no try/catch: a rejected await ends run() with the
\* error, whatever it is
WrapRejects(e) ==
    /\ pc' = "failed"
    /\ error' = Thrown(e, <<"WrapSolStep">>)
    /\ UNCHANGED <<wrapRequests, wrapInstrs, cleanupInstr, skipped>>

\* the reference quote of the wrap planner, through the client
ClientWrapGetQuote(script) ==
    /\ pc = "wrapSol:getQuote"
    /\ http' = [http EXCEPT !.wrap = Append(@, Exchange("getQuote", script))]
    /\ LET out == getQuote(LastRead(script), "dummyQuote")
       IN IF out.ok
          THEN /\ wrapRequests' =
                    Append(wrapRequests, SwapInstructionsRequest(out.value, TRUE))
               /\ pc' = "wrapSol:getSwapInstructions"
               /\ UNCHANGED <<wrapInstrs, cleanupInstr, skipped, error>>
          ELSE WrapRejects(out.error)
    /\ ClientWrapFrame

\* the instruction request of the wrap planner, through the client
ClientWrapGetSwapInstructions(script) ==
    /\ pc = "wrapSol:getSwapInstructions"
    /\ http' = [http EXCEPT !.wrap = Append(@, Exchange("getSwapInstructions", script))]
    /\ LET out == getSwapInstructions(LastRead(script))
       IN IF out.ok
          THEN /\ wrapInstrs' = IF Len(out.value.setupInstructions) > 0
                                THEN MapToIx(out.value.setupInstructions)
                                ELSE wrapInstrs
               /\ cleanupInstr' = IF out.value.cleanupInstruction # NullJson
                                  THEN toIx(out.value.cleanupInstruction)
                                  ELSE cleanupInstr
               /\ pc' = NextStep("wrapSol")
               /\ UNCHANGED <<wrapRequests, skipped, error>>
          ELSE WrapRejects(out.error)
    /\ ClientWrapFrame

ClientRouteFrame ==
    UNCHANGED <<body, parsed, rawRoutes, norm, queries, wrapRequests, routes,
                onRouteNotFound, params, wrapInstrs, cleanupInstr, wrappedLamports,
                instructions, assembled, altAccounts, altQueries, serialized, result>>

\* the getQuote of the callback of route i, through the client
ClientGetQuote(i, script) ==
    /\ task[i] = "quote"
    /\ http' = [http EXCEPT !.route[i] = Append(@, Exchange("getQuote", script))]
    /\ LET out == getQuote(LastRead(script), QuoteResponse(i, swapRequests[i][1]))
       IN IF out.ok
          THEN /\ task' = [task EXCEPT ![i] = "ixs"]
               /\ swapRequests' = [swapRequests EXCEPT
                        ![i] = Append(@, RouteIxsRequest(out.value))]
               /\ UNCHANGED <<thrown, swapPayloads, skipped, pc, error>>
          ELSE /\ thrown' = [thrown EXCEPT ![i] = Thrown(out.error, <<"route", i>>)]
               /\ UNCHANGED swapRequests
               /\ Catch(i, out.error)
    /\ ClientRouteFrame

\* the getSwapInstructions of the callback of route i, through the client
ClientGetSwapInstructions(i, script) ==
    /\ task[i] = "ixs"
    /\ http' = [http EXCEPT
            !.route[i] = Append(@, Exchange("getSwapInstructions", script))]
    /\ LET out == getSwapInstructions(LastRead(script))
       IN IF out.ok
          THEN /\ swapPayloads' = Append(swapPayloads, [i |-> i, ixs |-> out.value])
               /\ task' = [task EXCEPT ![i] = "done"]
               /\ UNCHANGED <<thrown, skipped, pc, error>>
          ELSE /\ thrown' = [thrown EXCEPT ![i] = Thrown(out.error, <<"route", i>>)]
               /\ Catch(i, out.error)
    /\ UNCHANGED swapRequests
    /\ ClientRouteFrame

\* the instruction sets the service returns
ClientPayloads == { MkSwapIxs(<<NullJson, <<>>>>, <<<<>>, JSwapA, <<>>>>, <<"Alt1">>) }

ClientWrapPayloads ==
    { [MkSwapIxs(<<NullJson, <<JLimitA>>>>, <<<<JAtaW, JSync>>, JSwapA, <<>>>>, <<"Alt1">>)
         EXCEPT !.cleanupInstruction = JClose] }

InitClient ==
    /\ \E n \in 1..MaxClientRoutes : routes \in [1..n -> {BuyRoute, SellRoute}]
    /\ rawRoutes = routes
    /\ norm = [i \in Indices |-> Callback("done", routes[i + 1].amount)]
    /\ onRouteNotFound \in {"skip", "fail"}
    /\ params = [onRouteNotFound |-> onRouteNotFound]
    /\ body = Absent
    /\ parsed = <<>>
    /\ http = NoExchanges
    /\ task = [i \in Indices |-> "idle"]
    /\ thrown = [i \in Indices |-> NoError]
    /\ swapRequests = [i \in Indices |-> <<>>]
    /\ queries = [i \in Indices |-> <<>>]
    /\ wrapRequests = <<>>
    /\ swapPayloads = <<>>
    /\ skipped = <<>>
    /\ wrappedLamports = Zero
    /\ wrapInstrs = <<>>
    /\ cleanupInstr = NullIx
    /\ instructions = <<>>
    /\ assembled = <<>>
    /\ altAccounts = <<>>
    /\ altQueries = <<>>
    /\ serialized = NotSerialized
    /\ result = NoResult
    /\ error = NoError
    /\ pc = "wrapSol"

NextClient ==
    \/ WrapSolStep
    \/ \E script \in ServiceScripts({"dummyQuote"}) : ClientWrapGetQuote(script)
    \/ \E script \in ServiceScripts(ClientWrapPayloads) : ClientWrapGetSwapInstructions(script)
    \/ SwapStepStart
    \/ \E i \in Indices : \E script \in ServiceScripts({"quote"}) : ClientGetQuote(i, script)
    \/ \E i \in Indices : \E script \in ServiceScripts(ClientPayloads) :
          ClientGetSwapInstructions(i, script)
    \/ SwapStepJoin

SpecClient == InitClient /\ [][NextClient]_vars

----------------------------------------------------------------------------
(* buildMultiSwapTxV0, stages 0 to 4, from the function's own source. Its  *)
(* locals routes, wrapInstrs, cleanupInstr, swapPayloads, skipped and      *)
(* totalLamports are held in the variables that hold the context's fields  *)
(* of the pipeline (totalLamports in wrappedLamports, which the function   *)
(* reports under that name), its position in pc under the name of the      *)
(* stage's step, and an error it throws is tagged as the step's is, so     *)
(* that a step of the function and a step of the pipeline can be compared  *)
(* state for state.                                                        *)

\* the function's own toIx
MonoToIx(ix) ==
    [programId |-> ix.programId,
     keys |-> [k \in 1..Len(ix.accounts) |->
                 [pubkey |-> ix.accounts[k].pubkey,
                  isSigner |-> ix.accounts[k].isSigner,
                  isWritable |-> ix.accounts[k].isWritable]],
     data |-> B64Decode(ix.data)]

\* stage 0: the callback of a route up to its first await, its return or
\* its throw
MonoStartCallback(r) ==
    IF r.side = "sell" /\ r.uiAmount # "undefined" /\ r.amount = Undefined
    THEN Callback("getTokenSupply", Undefined)
    ELSE IF r.side # "sell" /\ r.inputMint = SOL /\ r.uiAmount # "undefined"
            /\ r.amount = Undefined
    THEN Callback("done", solToLamports(r.uiAmount))
    ELSE IF r.amount = Undefined THEN Callback("failed", Undefined)
    ELSE Callback("done", r.amount)

MonoNormFrame ==
    UNCHANGED <<body, parsed, http, rawRoutes, wrapRequests, routes, onRouteNotFound,
                params, task, thrown, swapRequests, swapPayloads, skipped, wrapInstrs,
                cleanupInstr, wrappedLamports, instructions, assembled, altAccounts,
                altQueries, serialized, result>>

\* stage 0 up to Promise.all: rawRoutes.map calls every callback in turn
MonoNormalize ==
    /\ pc = "normalize"
    /\ norm' = [i \in 0..(Len(rawRoutes) - 1) |-> MonoStartCallback(rawRoutes[i + 1])]
    /\ queries' = [i \in 0..(Len(rawRoutes) - 1) |->
                     IF norm'[i].at = "getTokenSupply" THEN <<"getTokenSupply">> ELSE <<>>]
    /\ IF \E idx \in DOMAIN norm' : norm'[idx].at = "failed"
       THEN LET idx == CHOOSE a \in DOMAIN norm' :
                          /\ norm'[a].at = "failed"
                          /\ \A b \in DOMAIN norm' : norm'[b].at = "failed" => a <= b
            IN /\ pc' = "failed"
               /\ error' = Thrown(PlainError("order[] missing amount/uiAmount", <<idx>>),
                                  <<"NormalizeRoutesStep", "order", idx>>)
       ELSE /\ pc' = "normalizing"
            /\ UNCHANGED error
    /\ MonoNormFrame

\* a callback rejects: Promise.all rejects with the first rejection
MonoNormRejects(i, e) ==
    /\ norm' = [norm EXCEPT ![i].at = "failed"]
    /\ IF pc = "normalizing"
       THEN /\ pc' = "failed"
            /\ error' = Thrown(e, <<"NormalizeRoutesStep", "order", i>>)
       ELSE UNCHANGED <<pc, error>>
    /\ UNCHANGED queries

\* getTokenDecimals after its await, and the callback up to the await of
\* getTokenBalance. res.value.decimals is a number in every answer the
\* connection returns (a response without it is rejected by the connection
\* and is a MonoQueryThrows), so the typeof branch is kept as written.
MonoSupplyReturns(i, d) ==
    /\ norm[i].at = "getTokenSupply"
    /\ IF d \notin Nat
       THEN MonoNormRejects(i, PlainError("No decimals for", <<rawRoutes[i + 1].inputMint>>))
       ELSE /\ norm' = [norm EXCEPT
                    ![i].at = "getTokenAccountsByOwner",
                    ![i].decimals = d,
                    ![i].baseStr = uiToBaseUnits(rawRoutes[i + 1].uiAmount, d)]
            /\ queries' = [queries EXCEPT ![i] = Append(@, "getTokenAccountsByOwner")]
            /\ UNCHANGED <<pc, error>>
    /\ MonoNormFrame

\* variant: the function returns the converted amount whatever is held
MonoSafeAmount_Unclamped(baseStr, onchainBal) == baseStr

\* BigInt(baseStr) > onchainBal ? onchainBal : BigInt(baseStr)
MonoSafeAmount(baseStr, onchainBal) ==
    IF BigLess(onchainBal, baseStr) THEN onchainBal ELSE baseStr

\* getTokenBalance after its first await: 0n without an account, or the
\* await of the balance of the first account
MonoAccountsReturns(i, length) ==
    /\ norm[i].at = "getTokenAccountsByOwner"
    /\ IF length = 0
       THEN /\ norm' = [norm EXCEPT
                    ![i].at = "done",
                    ![i].amount = MonoSafeAmount(norm[i].baseStr, Zero)]
            /\ UNCHANGED queries
       ELSE /\ norm' = [norm EXCEPT ![i].at = "getTokenAccountBalance"]
            /\ queries' = [queries EXCEPT ![i] = Append(@, "getTokenAccountBalance")]
    /\ UNCHANGED <<pc, error>>
    /\ MonoNormFrame

\* getTokenBalance after its second await, and the callback's return
MonoBalanceReturns(i, amount) ==
    /\ norm[i].at = "getTokenAccountBalance"
    /\ norm' = [norm EXCEPT
            ![i].at = "done",
            ![i].onchainBalance = amount,
            ![i].amount = MonoSafeAmount(norm[i].baseStr, amount)]
    /\ UNCHANGED <<queries, pc, error>>
    /\ MonoNormFrame

\* one of the three queries of the connection rejects
MonoQueryThrows(i) ==
    /\ norm[i].at \in {"getTokenSupply", "getTokenAccountsByOwner", "getTokenAccountBalance"}
    /\ MonoNormRejects(i, PlainError("ledger query failed", <<norm[i].at>>))
    /\ MonoNormFrame

\* Promise.all fulfils: routes is the array of what the callbacks returned
MonoNormalized ==
    /\ pc = "normalizing"
    /\ \A i \in DOMAIN norm : norm[i].at = "done"
    /\ routes' = [k \in 1..Len(rawRoutes) |->
                    [rawRoutes[k] EXCEPT !.amount = norm[k - 1].amount]]
    /\ pc' = "wrapSol"
    /\ UNCHANGED <<body, parsed, http, rawRoutes, norm, queries, wrapRequests,
                   onRouteNotFound, params, task, thrown, swapRequests, swapPayloads,
                   skipped, wrapInstrs, cleanupInstr, wrappedLamports, instructions,
                   assembled, altAccounts, altQueries, serialized, result, error>>

\* stage 1: routes.filter(...).reduce((sum, r) => sum + Number(r.amount), 0),
\* the sum taken from the left
RECURSIVE MonoTotalLamports(_)
MonoTotalLamports(rs) ==
    IF rs = <<>> THEN Zero
    ELSE LET rest == MonoTotalLamports(SubSeq(rs, 1, Len(rs) - 1))
             r == rs[Len(rs)]
         IN IF r.side # "sell" /\ r.inputMint = SOL
            THEN NumberAdd(rest, Number(r.amount))
            ELSE rest

MonoWrapFrame ==
    UNCHANGED <<body, parsed, http, rawRoutes, norm, queries, routes, onRouteNotFound,
                params, task, thrown, swapRequests, swapPayloads, skipped, instructions,
                assembled, altAccounts, altQueries, serialized, result>>

\* stage 1, and stage 2 up to its first await or past its if. The function
\* passes the total as a number where WrapSolStep passes its decimal
\* string; the client writes String(amount) in the query either way.
MonoTotal ==
    /\ pc = "wrapSol"
    /\ wrappedLamports' = MonoTotalLamports(routes)
    /\ IF BigLess(Zero, wrappedLamports')
       THEN /\ wrapRequests' = Append(wrapRequests,
                    [call |-> "getQuote", inputMint |-> SOL, outputMint |-> USDC,
                     amount |-> wrappedLamports', slippageBps |-> 1,
                     swapMode |-> "ExactIn"])
            /\ pc' = "wrapSol:getQuote"
       ELSE /\ pc' = "swap"
            /\ UNCHANGED wrapRequests
    /\ UNCHANGED <<wrapInstrs, cleanupInstr, error>>
    /\ MonoWrapFrame

\* getQuote of stage 2 returns: the dummy quote goes to getSwapInstructions
MonoDummyQuoteReturns ==
    /\ pc = "wrapSol:getQuote"
    /\ wrapRequests' = Append(wrapRequests,
            [call |-> "getSwapInstructions", userPublicKey |-> "User",
             quoteResponse |-> "dummyQuote", wrapAndUnwrapSol |-> TRUE,
             dynamicComputeUnitLimit |-> TRUE, prioritizationFeeLamports |-> "auto"])
    /\ pc' = "wrapSol:getSwapInstructions"
    /\ UNCHANGED <<wrapInstrs, cleanupInstr, wrappedLamports, error>>
    /\ MonoWrapFrame

\* either await of stage 2 rejects: nothing catches it
MonoWrapThrows(e) ==
    /\ pc \in {"wrapSol:getQuote", "wrapSol:getSwapInstructions"}
    /\ pc' = "failed"
    /\ error' = Thrown(e, <<"WrapSolStep">>)
    /\ UNCHANGED <<wrapRequests, wrapInstrs, cleanupInstr, wrappedLamports>>
    /\ MonoWrapFrame

\* getSwapInstructions of stage 2 returns
MonoWrapIxsReturns(swapIxs) ==
    /\ pc = "wrapSol:getSwapInstructions"
    /\ wrapInstrs' = IF Len(swapIxs.setupInstructions) > 0
                     THEN [k \in 1..Len(swapIxs.setupInstructions) |->
                             MonoToIx(swapIxs.setupInstructions[k])]
                     ELSE wrapInstrs
    /\ cleanupInstr' = IF swapIxs.cleanupInstruction # NullJson
                       THEN MonoToIx(swapIxs.cleanupInstruction)
                       ELSE cleanupInstr
    /\ pc' = "swap"
    /\ UNCHANGED <<wrapRequests, wrappedLamports, error>>
    /\ MonoWrapFrame

MonoSwapFrame ==
    UNCHANGED <<body, parsed, http, rawRoutes, norm, queries, wrapRequests, routes,
                onRouteNotFound, params, wrapInstrs, cleanupInstr, wrappedLamports,
                instructions, assembled, altAccounts, altQueries, serialized, result>>

\* stages 3 and 4 up to Promise.all: the two lists are declared empty and
\* every callback runs up to its getQuote
MonoRoutesStart ==
    /\ pc = "swap"
    /\ \A i \in DOMAIN task : task[i] = "idle"
    /\ swapPayloads' = <<>>
    /\ skipped' = <<>>
    /\ task' = [i \in DOMAIN task |-> "quote"]
    /\ swapRequests' = [i \in DOMAIN task |->
            <<[call |-> "getQuote", inputMint |-> routes[i + 1].inputMint,
               outputMint |-> routes[i + 1].outputMint, amount |-> routes[i + 1].amount,
               slippageBps |-> routes[i + 1].slippageBps, swapMode |-> "ExactIn"]>>]
    /\ UNCHANGED <<thrown, pc, error>>
    /\ MonoSwapFrame

\* getQuote of callback i returns q, which goes to getSwapInstructions
MonoQuoteReturns(i) ==
    /\ task[i] = "quote"
    /\ LET q == QuoteResponse(i, swapRequests[i][1])
       IN swapRequests' = [swapRequests EXCEPT ![i] = Append(@,
            [call |-> "getSwapInstructions", userPublicKey |-> "User",
             quoteResponse |-> q, wrapAndUnwrapSol |-> FALSE,
             dynamicComputeUnitLimit |-> TRUE, prioritizationFeeLamports |-> "auto"])]
    /\ task' = [task EXCEPT ![i] = "ixs"]
    /\ UNCHANGED <<thrown, swapPayloads, skipped, pc, error>>
    /\ MonoSwapFrame

\* getSwapInstructions of callback i returns: swapPayloads.push({ i, ixs })
MonoIxsReturns(i, ixs) ==
    /\ task[i] = "ixs"
    /\ swapPayloads' = Append(swapPayloads, [i |-> i, ixs |-> ixs])
    /\ task' = [task EXCEPT ![i] = "done"]
    /\ UNCHANGED <<thrown, swapRequests, skipped, pc, error>>
    /\ MonoSwapFrame

\* either await of callback i rejects with e: the catch block, which
\* skips under the function's local onRouteNotFound or rethrows
MonoRouteThrows(i, e) ==
    /\ task[i] \in {"quote", "ixs"}
    /\ thrown' = [thrown EXCEPT ![i] = Thrown(e, <<"route", i>>)]
    /\ IF e.name = "JupiterApiError" /\ e.errorCode = COULD_NOT_FIND_ANY_ROUTE
          /\ PolicyOf(params) = "skip"
       THEN /\ skipped' = Append(skipped,
                    [index |-> i, reason |-> e.message, code |-> e.errorCode])
            /\ task' = [task EXCEPT ![i] = "skipped"]
            /\ UNCHANGED <<pc, error>>
       ELSE /\ task' = [task EXCEPT ![i] = "failed"]
            /\ IF pc = "swap"
               THEN pc' = "failed" /\ error' = Thrown(e, <<"route", i>>)
               ELSE UNCHANGED <<pc, error>>
            /\ UNCHANGED skipped
    /\ UNCHANGED <<swapRequests, swapPayloads>>
    /\ MonoSwapFrame

\* Promise.all fulfils, and the check that some route is executable
MonoRoutesJoined ==
    /\ pc = "swap"
    /\ \A i \in DOMAIN task : task[i] \in {"done", "skipped"}
    /\ IF Len(swapPayloads) = 0
       THEN /\ pc' = "failed"
            /\ error' = Thrown(
                 IF Len(skipped) > 0
                 THEN PlainError("No executable route. Skipped indices: ",
                                 [k \in 1..Len(skipped) |-> skipped[k].index])
                 ELSE PlainError("No executable route.", <<>>),
                 <<"SwapStep">>)
       ELSE /\ pc' = "assemble"
            /\ UNCHANGED error
    /\ UNCHANGED <<task, thrown, swapRequests, swapPayloads, skipped>>
    /\ MonoSwapFrame

\* the outcomes of the external calls that the two programs are run under
EquivDecimals == {6}
EquivBalances == {Big(400000)}
EquivErrors ==
    { JupiterApiError(400, COULD_NOT_FIND_ANY_ROUTE),
      PlainError("swap-instructions HTTP", <<400>>) }
EquivResponses == { MkSwapIxs(<<NullJson, <<>>>>, <<<<>>, JSwapA, <<>>>>, <<"Alt1">>) }

\* a step of stages 0 to 4 of the function
MonoStages ==
    \/ MonoNormalize
    \/ \E i \in Indices : \E d \in EquivDecimals : MonoSupplyReturns(i, d)
    \/ \E i \in Indices : \E length \in {0, 1} : MonoAccountsReturns(i, length)
    \/ \E i \in Indices : \E amount \in EquivBalances : MonoBalanceReturns(i, amount)
    \/ \E i \in Indices : MonoQueryThrows(i)
    \/ MonoNormalized
    \/ MonoTotal
    \/ MonoDummyQuoteReturns
    \/ \E e \in EquivErrors : MonoWrapThrows(e)
    \/ \E swapIxs \in WrapResponses : MonoWrapIxsReturns(swapIxs)
    \/ MonoRoutesStart
    \/ \E i \in Indices : MonoQuoteReturns(i)
    \/ \E i \in Indices : \E ixs \in EquivResponses : MonoIxsReturns(i, ixs)
    \/ \E i \in Indices : \E e \in EquivErrors : MonoRouteThrows(i, e)
    \/ MonoRoutesJoined

\* a step of NormalizeRoutesStep, WrapSolStep or SwapStep
PipelineStages ==
    \/ NormalizeRoutesStep
    \/ \E i \in Indices : \E decimals \in EquivDecimals : SupplyReturns(i, decimals)
    \/ \E i \in Indices : \E found \in BOOLEAN : AccountsReturns(i, found)
    \/ \E i \in Indices : \E balance \in EquivBalances : BalanceReturns(i, balance)
    \/ \E i \in Indices : QueryThrows(i)
    \/ NormalizeJoin
    \/ WrapSolStep
    \/ WrapQuoteReturns
    \/ \E e \in EquivErrors : WrapQuoteThrows(e)
    \/ \E swapIxs \in WrapResponses : WrapIxsReturns(swapIxs)
    \/ \E e \in EquivErrors : WrapIxsThrows(e)
    \/ SwapStepStart
    \/ \E i \in Indices : QuoteReturns(i)
    \/ \E i \in Indices : \E e \in EquivErrors : QuoteThrows(i, e)
    \/ \E i \in Indices : \E ixs \in EquivResponses : IxsReturns(i, ixs)
    \/ \E i \in Indices : \E e \in EquivErrors : IxsThrows(i, e)
    \/ SwapStepJoin

\* what the caller of either program passes
EquivRawRoutes ==
    { Route("sell", USDC, SOL, Undefined, "2.01"),
      Route("buy", SOL, USDC, Undefined, "0.5"),
      Route("undefined", SOL, USDC, Big(25), "0.5"),
      Route("buy", USDC, SOL, Undefined, "0.5") }

\* the same call given to both programs: the function takes the routes
\* and the policy from params, where the policy may be left out; the
\* pipeline takes them from its context, whose type requires a policy,
\* and which holds the policy in force for the call
InitEquiv ==
    /\ \E n \in 1..MaxEquivRoutes : rawRoutes \in [1..n -> EquivRawRoutes]
    /\ routes = rawRoutes
    /\ norm = [i \in Indices |-> Callback("idle", Undefined)]
    /\ params \in [onRouteNotFound : MonoPolicies]
    /\ onRouteNotFound = PolicyOf(params)
    /\ EmptyContext
    /\ pc = "normalize"

NextEquiv ==
    \/ MonoStages
    \/ PipelineStages

SpecEquiv == InitEquiv /\ [][NextEquiv]_vars

----------------------------------------------------------------------------
(* Vocabulary of the properties *)

\* the no-viable-route failure: a JupiterApiError with the no-route code
NoViableRoute(e) == e.name = "JupiterApiError" /\ e.errorCode = "COULD_NOT_FIND_ANY_ROUTE"

AllTasksReturned == \A i \in Indices : task[i] \in {"done", "skipped"}

\* Promise.all of SwapStep.run has fulfilled
Joined ==
    /\ pc \notin {"normalize", "normalizing", "wrapSol", "wrapSol:getQuote",
                  "wrapSol:getSwapInstructions", "swap"}
    /\ AllTasksReturned

Ascending(s) == \A a, b \in 1..Len(s) : a < b => s[a] < s[b]

PayloadIndices == [k \in 1..Len(swapPayloads) |-> swapPayloads[k].i]

SkipIndices == [k \in 1..Len(skipped) |-> skipped[k].index]

Occurrences(s, x) == Cardinality({k \in 1..Len(s) : s[k] = x})

Elems(s) == {s[k] : k \in 1..Len(s)}

RouteAborted == pc = "failed" /\ Len(error.thrownBy) = 2

ResolverAborted == pc = "failed" /\ error.thrownBy = <<"SwapStep">>

----------------------------------------------------------------------------
(* C1: once all route tasks are joined, the payload list and the skip list *)
(* are each in ascending route index order, whatever the completion order. *)
C1_ListsInRouteOrder ==
    Joined => Ascending(PayloadIndices) /\ Ascending(SkipIndices)

(* C2: when the Route Resolver completes without aborting, every route     *)
(* index occurs exactly once in the payload list or exactly once in the    *)
(* skip list, never in both, never in neither.                             *)
C2_ExactlyOneList ==
    Joined =>
        \A i \in Indices :
            Occurrences(PayloadIndices, i) + Occurrences(SkipIndices, i) = 1

C2_Witness ==
    /\ Joined
    /\ Len(swapPayloads) >= 1
    /\ Len(skipped) >= 1

(* C3: under policy "skip" a no-viable-route failure never ends the        *)
(* pipeline, and when at least one route resolved the Route Resolver does  *)
(* not end it either; a BuildResult lists exactly the no-route routes in   *)
(* diagnostics.skipped, each with its reason and code, executedCount is    *)
(* the number of resolved routes, requestedCount the number of routes, and *)
(* executedCount + length(skipped) = requestedCount.                       *)
C3_SkipPolicy ==
    onRouteNotFound = "skip" =>
        /\ RouteAborted => ~NoViableRoute(error)
        /\ ( /\ AllTasksReturned
             /\ \E i \in Indices : task[i] = "done" ) => ~ResolverAborted
        /\ result # NoResult =>
            LET d == result.diagnostics IN
            /\ Elems([k \in 1..Len(d.skipped) |-> d.skipped[k].index])
                  = {i \in Indices : NoViableRoute(thrown[i])}
            /\ \A k \in 1..Len(d.skipped) :
                  /\ d.skipped[k].reason = thrown[d.skipped[k].index].message
                  /\ d.skipped[k].code = "COULD_NOT_FIND_ANY_ROUTE"
                  /\ \A m \in 1..Len(d.skipped) :
                        d.skipped[m].index = d.skipped[k].index => m = k
            /\ d.executedCount = Cardinality({i \in Indices : thrown[i] = NoError})
            /\ d.requestedCount = Len(routes)
            /\ d.executedCount + Len(d.skipped) = d.requestedCount

C3_Witness ==
    /\ onRouteNotFound = "skip"
    /\ Len(routes) = 3
    /\ result # NoResult
    /\ NoViableRoute(thrown[1])
    /\ result.diagnostics.executedCount = 2
    /\ Len(result.diagnostics.skipped) = 1

(* C4 as stated: under policy "fail", if any route's quote fails with the  *)
(* no-viable-route code, the pipeline ends with that error, no SkipRecord  *)
(* is recorded and no BuildResult is produced, whatever the other routes   *)
(* return.                                                                 *)
C4_EndsWithNoRouteError ==
    onRouteNotFound = "fail" =>
        \A i \in Indices :
            NoViableRoute(thrown[i]) =>
                /\ pc = "failed"
                /\ NoViableRoute(error)
                /\ skipped = <<>>
                /\ result = NoResult

(* C4 amended: under policy "fail", if any route's quote fails with the    *)
(* no-viable-route code, the pipeline ends with the error of a failed      *)
(* route task: that error when no other route task has failed, otherwise   *)
(* the first failure; no SkipRecord is recorded and no BuildResult is      *)
(* produced.                                                               *)
C4_FailPolicy ==
    onRouteNotFound = "fail" =>
        \A i \in Indices :
            NoViableRoute(thrown[i]) =>
                /\ pc = "failed"
                /\ \E j \in Indices : task[j] = "failed" /\ error = thrown[j]
                /\ (\A j \in Indices \ {i} : task[j] # "failed") => error = thrown[i]
                /\ skipped = <<>>
                /\ result = NoResult

C4_Witness ==
    /\ onRouteNotFound = "fail"
    /\ Len(routes) = 3
    /\ NoViableRoute(thrown[1])
    /\ error = thrown[1]
    /\ task[0] = "done"
    /\ task[2] = "done"

(* C5: a per-route failure other than the no-viable-route code aborts the  *)
(* pipeline under both policies: it is never turned into a SkipRecord and  *)
(* no BuildResult is produced.                                             *)
C5_OtherErrorsAbort ==
    \A i \in Indices :
        (thrown[i] # NoError /\ ~NoViableRoute(thrown[i])) =>
            /\ RouteAborted
            /\ \A k \in 1..Len(skipped) : skipped[k].index # i
            /\ task[i] = "failed"
            /\ result = NoResult

C5_Witness ==
    /\ onRouteNotFound = "skip"
    /\ \E i \in Indices :
         /\ thrown[i] # NoError
         /\ ~NoViableRoute(thrown[i])
         /\ error = thrown[i]
    /\ \E j \in Indices : task[j] = "done"

(* C6: once all route tasks have returned with an empty payload list, the  *)
(* Route Resolver fails with the "No executable route" error and no later  *)
(* stage runs; the message lists the index of every skipped route when the *)
(* skip list is non-empty and no index when it is empty.                   *)
C6_NoExecutableRoute ==
    (Joined /\ Len(swapPayloads) = 0) =>
        /\ ResolverAborted
        /\ IF Len(skipped) > 0
           THEN /\ error.message.text = "No executable route. Skipped indices: "
                /\ Len(error.message.args) = Len(skipped)
                /\ Elems(error.message.args) = Indices
           ELSE error.message = Msg("No executable route.", <<>>)
        /\ instructions = <<>>
        /\ altAccounts = <<>>
        /\ serialized = NotSerialized
        /\ result = NoResult

C6_Witness ==
    /\ ResolverAborted
    /\ Len(routes) = 3
    /\ Len(error.message.args) = 3

(* C7: the Transaction Compiler sets a BuildResult if and only if          *)
(* serialization succeeds with a size of at most 1232 bytes (1232 itself   *)
(* is accepted); otherwise it fails with the 'Transaction too large' error *)
(* naming the observed size and the limit and leaves the result unset; in  *)
(* both cases the assembled sequence is the one the compiler was given.    *)
C7_SizeCeiling ==
    /\ ~serialized.attempted => result = NoResult
    /\ serialized.attempted =>
        /\ (result # NoResult) <=> (serialized.ok /\ serialized.length <= 1232)
        /\ result = NoResult =>
            /\ pc = "failed"
            /\ error.message.text = "Transaction too large: estimated size, limit"
            /\ error.message.args =
                  <<IF serialized.ok THEN serialized.length ELSE -1, 1232>>
        /\ result # NoResult =>
            /\ pc = "done"
            /\ result.unsignedTx.instructions = instructions
            /\ result.diagnostics.txSize = serialized.length
        /\ instructions = AssembleInstructions(wrapInstrs, swapPayloads, cleanupInstr)

C7_Witness ==
    /\ result # NoResult
    /\ serialized.length = 1232
    /\ Len(instructions) >= 5

----------------------------------------------------------------------------
(* Vocabulary of the assembler properties *)

\* AssembleInstructionsStep.run has returned and nothing ran after it
Assembled == pc = "resolveAlt"

Min(S) == CHOOSE x \in S : \A y \in S : x <= y

\* no two positions hold the same (program identifier, account list, payload)
NoDuplicateTriples(s) == \A a, b \in 1..Len(s) : a # b => s[a] # s[b]

SetupFragments(k) == Elems(MapToIx(swapPayloads[k].ixs.setupInstructions))

\* the setup fragments that occur identically in two RoutePayloads
SharedSetup ==
    { x \in UNION { SetupFragments(k) : k \in 1..Len(swapPayloads) } :
        \E k, m \in 1..Len(swapPayloads) :
            k # m /\ x \in SetupFragments(k) /\ x \in SetupFragments(m) }

\* what the assembler compares when it deduplicates
DedupClass(ix) ==
    IF ix.programId = "ATokenGPvbdGVxr1b2hvZbsiqW5xWH25efTNsLJA8knL"
    THEN <<"ata",
           IF Len(ix.keys) >= 3 THEN ix.keys[3].pubkey ELSE "undefined",
           IF Len(ix.keys) >= 4 THEN ix.keys[4].pubkey ELSE "undefined">>
    ELSE <<"generic", ix.programId,
           [k \in 1..Len(ix.keys) |-> ix.keys[k].pubkey], ix.data>>

\* the seven sections of the fixed order, as sets of candidate instructions
LedgerSection ==
    LET ks == { k \in 1..Len(swapPayloads) :
                  swapPayloads[k].ixs.tokenLedgerInstruction # NullJson }
    IN IF ks = {} THEN {}
       ELSE { toIx(swapPayloads[Min(ks)].ixs.tokenLedgerInstruction) }

AllBudget == computeBudgetIx(swapPayloads)

\* the first two fragments with distinct (program, payload), or the default
BudgetSection ==
    LET all == AllBudget
        firsts == { p \in 1..Len(all) :
                      \A q \in 1..(p - 1) :
                        ~(all[q].programId = all[p].programId /\ all[q].data = all[p].data) }
    IN IF all = <<>>
       THEN { [programId |-> "ComputeBudget111111111111111111111111111111",
               keys |-> <<>>, data |-> <<2, 64, 66, 15, 0>>] }
       ELSE { all[p] : p \in { p \in firsts :
                                   Cardinality({ q \in firsts : q < p }) < 2 } }

\* the seven sections, in the fixed order
Sections ==
    <<Elems(wrapInstrs),
      LedgerSection,
      BudgetSection,
      Elems(SetupIxs(swapPayloads)),
      Elems(SwapIxs(swapPayloads)),
      Elems(OtherIxs(swapPayloads)),
      {cleanupInstr} \ {NullIx}>>

\* the compute-budget fragments the RoutePayloads supply
BudgetFragments == Elems(AllBudget)

SuppliedInstructions ==
    UNION { Sections[n] : n \in {1, 2, 4, 5, 6, 7} } \cup BudgetFragments

DefaultUnitLimit ==
    [programId |-> "ComputeBudget111111111111111111111111111111",
     keys |-> <<>>, data |-> <<2, 64, 66, 15, 0>>]

----------------------------------------------------------------------------
(* C8 as stated: the assembled sequence contains no two instructions with  *)
(* the same program identifier, ordered account list and payload, and a    *)
(* setup fragment that occurs identically in two RoutePayloads occurs      *)
(* exactly once in it.                                                     *)
C8_SharedSetupExactlyOnce ==
    Assembled =>
        /\ NoDuplicateTriples(instructions)
        /\ \A x \in SharedSetup : Occurrences(instructions, x) = 1

(* C8 amended: the assembled sequence contains no two instructions with    *)
(* the same program identifier, ordered account list and payload; a setup  *)
(* fragment that occurs identically in two RoutePayloads occurs at most    *)
(* once, and exactly once unless the sequence holds another instruction    *)
(* with the same deduplication key.                                        *)
C8_NoDuplicates ==
    Assembled =>
        /\ NoDuplicateTriples(instructions)
        /\ \A x \in SharedSetup :
            \/ Occurrences(instructions, x) = 1
            \/ /\ Occurrences(instructions, x) = 0
               /\ \E p \in 1..Len(instructions) :
                    /\ instructions[p] # x
                    /\ DedupClass(instructions[p]) = DedupClass(x)

C8_Witness ==
    /\ Assembled
    /\ \E x \in SharedSetup :
         /\ x \notin Elems(wrapInstrs)
         /\ Occurrences(instructions, x) = 1
    /\ \E k \in 1..Len(swapPayloads) : SetupFragments(k) \cap Elems(wrapInstrs) # {}

(* C9: the assembled sequence respects the fixed section order: every      *)
(* instruction sits in the section where it first occurs, and wrap         *)
(* instructions precede the token-ledger instruction, which precedes the   *)
(* compute-budget instructions, which precede all setup instructions,      *)
(* which precede all swap instructions, which precede all other            *)
(* instructions, which precede the cleanup instruction.                    *)
C9_SectionOrder ==
    Assembled =>
        LET sec == Sections
            \* the section where each instruction first occurs
            rank == [p \in 1..Len(instructions) |->
                        Min({ n \in 1..8 : n = 8 \/ instructions[p] \in sec[n] })]
        IN /\ \A p \in 1..Len(instructions) : rank[p] <= 7
           /\ \A p, q \in 1..Len(instructions) : p < q => rank[p] <= rank[q]

C9_Witness ==
    /\ Assembled
    /\ Len(swapPayloads) >= 2
    /\ LET sec == Sections
       IN \A n \in 1..7 :
            \E p \in 1..Len(instructions) :
                /\ instructions[p] \in sec[n]
                /\ \A m \in 1..(n - 1) : instructions[p] \notin sec[m]

(* C10: the assembled sequence contains at most two of the compute-budget  *)
(* fragments supplied across the RoutePayloads, and no synthesized default *)
(* unit-limit instruction when at least one real fragment exists.          *)
C10_BudgetCap ==
    Assembled =>
        LET fragments == BudgetFragments
        IN /\ Cardinality({ p \in 1..Len(instructions) :
                               instructions[p] \in fragments }) <= 2
           /\ (fragments # {} /\ DefaultUnitLimit \notin SuppliedInstructions)
                 => DefaultUnitLimit \notin Elems(instructions)

----------------------------------------------------------------------------
(* Vocabulary of the assembler properties, continued *)

IsAta(ix) == ix.programId = "ATokenGPvbdGVxr1b2hvZbsiqW5xWH25efTNsLJA8knL"

\* (owner, mint) = (account 2, account 3) of an instruction
OwnerMint(ix) ==
    <<IF Len(ix.keys) >= 3 THEN ix.keys[3].pubkey ELSE "undefined",
      IF Len(ix.keys) >= 4 THEN ix.keys[4].pubkey ELSE "undefined">>

\* the instructions offered to the sequence outside the compute-budget
\* section, in the order in which they are offered
Offered ==
    wrapInstrs
      \o (IF tokenLedgerIx(swapPayloads) # NullJson
          THEN <<toIx(tokenLedgerIx(swapPayloads))>> ELSE <<>>)
      \o SetupIxs(swapPayloads)
      \o SwapIxs(swapPayloads)
      \o OtherIxs(swapPayloads)
      \o (IF cleanupInstr # NullIx THEN <<cleanupInstr>> ELSE <<>>)

\* a sequence without the elements that repeat the deduplication key of an
\* earlier element
FirstOfEachClass(s) ==
    LET keep == { p \in 1..Len(s) :
                    \A q \in 1..(p - 1) : DedupClass(s[q]) # DedupClass(s[p]) }
        nth(n) == CHOOSE p \in keep : Cardinality({ q \in keep : q < p }) = n - 1
    IN [n \in 1..Cardinality(keep) |-> s[nth(n)]]

(* C11: when no RoutePayload supplies a compute-budget fragment, the       *)
(* assembled sequence holds exactly one default unit-limit instruction     *)
(* (1,000,000 units) and it sits in the compute-budget section, after the  *)
(* wrap and token-ledger instructions and before everything else; when     *)
(* some RoutePayload supplies a compute-budget fragment, no default is     *)
(* synthesized.                                                            *)
C11_DefaultUnitLimit ==
    Assembled =>
        LET sec == Sections
            before == sec[1] \cup sec[2]
        IN IF AllBudget = <<>>
           THEN \E p \in 1..Len(instructions) :
                    /\ instructions[p] = DefaultUnitLimit
                    /\ instructions[p].data = <<2>> \o <<64, 66, 15, 0>>
                    /\ Occurrences(instructions, DefaultUnitLimit) = 1
                    /\ \A q \in 1..(p - 1) : instructions[q] \in before
                    /\ \A q \in (p + 1)..Len(instructions) : instructions[q] \notin before
           ELSE DefaultUnitLimit \in Elems(instructions)
                    => DefaultUnitLimit \in SuppliedInstructions

(* C12: among the instructions of the associated-token-account program,    *)
(* the assembled sequence holds at most one per (owner, mint) pair; for    *)
(* every pair that is offered, the instruction kept is the first one       *)
(* offered with that pair, whatever the other accounts and the payload of  *)
(* the later ones.                                                         *)
C12_OnePerOwnerMint ==
    Assembled =>
        LET c == Offered
            firstOf(k) == c[Min({ j \in 1..k : IsAta(c[j]) /\ OwnerMint(c[j]) = OwnerMint(c[k]) })]
        IN /\ \A p, q \in 1..Len(instructions) :
                (p # q /\ IsAta(instructions[p]) /\ IsAta(instructions[q]))
                    => OwnerMint(instructions[p]) # OwnerMint(instructions[q])
           /\ \A k \in 1..Len(c) :
                IsAta(c[k]) =>
                    /\ firstOf(k) \in Elems(instructions)
                    /\ \A p \in 1..Len(instructions) :
                          (IsAta(instructions[p])
                             /\ OwnerMint(instructions[p]) = OwnerMint(c[k]))
                                => instructions[p] = firstOf(k)

C12_Witness ==
    /\ Assembled
    /\ LET c == Offered
       IN /\ \E j, k \in 1..Len(c) :
                /\ j < k
                /\ IsAta(c[j]) /\ IsAta(c[k])
                /\ OwnerMint(c[j]) = OwnerMint(c[k])
                /\ c[j] # c[k]
                /\ c[j] \in Elems(instructions)
                /\ c[k] \notin Elems(instructions)
          /\ Cardinality({ p \in 1..Len(instructions) : IsAta(instructions[p]) }) = 2

(* C15: when there are wrap instructions the assembled sequence begins     *)
(* with them, in their order and without repeats, and when there is a      *)
(* cleanup instruction it is the last instruction of the assembled         *)
(* sequence, for every combination of route fragments.                     *)
C15_WrapFirstCleanupLast ==
    Assembled =>
        /\ wrapInstrs # <<>> =>
              LET w == FirstOfEachClass(wrapInstrs)
              IN /\ Len(instructions) >= Len(w)
                 /\ SubSeq(instructions, 1, Len(w)) = w
        /\ cleanupInstr # NullIx =>
              /\ Len(instructions) > 0
              /\ instructions[Len(instructions)] = cleanupInstr

----------------------------------------------------------------------------
(* Vocabulary of the wrap planner and lookup-table properties *)

\* the routes that are buys funded by the native asset: every route that is
\* not tagged "sell" and whose input asset is SOL
NativeBuys ==
    { k \in 1..Len(routes) : routes[k].side # "sell" /\ routes[k].inputMint = SOL }

\* the exact integer sum of the amounts of the routes 1..k among NativeBuys
RECURSIVE ExactTotal(_)
ExactTotal(k) ==
    IF k = 0 THEN <<0, 0>>
    ELSE IF k \in NativeBuys
         THEN LET t == ExactTotal(k - 1)
                  lo == t[2] + routes[k].amount[2]
              IN <<t[1] + routes[k].amount[1] + (lo \div 134217728), lo % 134217728>>
         ELSE ExactTotal(k - 1)

\* WrapSolStep.run has returned normally
WrapPlannerReturned ==
    /\ pc \notin {"normalize", "normalizing", "wrapSol", "wrapSol:getQuote",
                  "wrapSol:getSwapInstructions"}
    /\ pc = "failed" => error.thrownBy[1] \notin {"NormalizeRoutesStep", "WrapSolStep"}

\* the lookup-table addresses the RoutePayloads reference
ReferencedTables ==
    UNION { Elems(swapPayloads[k].ixs.addressLookupTableAddresses) :
              k \in 1..Len(swapPayloads) }

(* C13: the Wrap Planner issues no request, and leaves no wrap and no      *)
(* cleanup instruction, when the native-asset-funded buy amounts sum to    *)
(* zero; when the sum is positive it issues one quote request and then,    *)
(* once the quote has returned, one instruction request with               *)
(* wrap-and-unwrap enabled, and never more, however many routes            *)
(* contribute.                                                             *)
C13_OneWrapFetch ==
    /\ Len(wrapRequests) <= 2
    /\ \A k \in 1..Len(wrapRequests) :
          IF k = 1
          THEN wrapRequests[k].call = "getQuote"
          ELSE /\ wrapRequests[k].call = "getSwapInstructions"
               /\ wrapRequests[k].wrapAndUnwrapSol = TRUE
    /\ ExactTotal(Len(routes)) = <<0, 0>> =>
          /\ wrapRequests = <<>>
          /\ wrapInstrs = <<>>
          /\ cleanupInstr = NullIx
    /\ (WrapPlannerReturned /\ ExactTotal(Len(routes)) # <<0, 0>>) =>
          Len(wrapRequests) = 2

C13_Witness ==
    /\ WrapPlannerReturned
    /\ Len(routes) = 3
    /\ Cardinality(NativeBuys) = 2
    /\ Len(wrapRequests) = 2
    /\ wrapInstrs # <<>>
    /\ cleanupInstr # NullIx

(* C14: the wrappedLamports of the diagnostics is the exact integer sum of *)
(* the amounts of the native-asset-funded buy routes; sell routes and      *)
(* routes with another input asset do not count.                           *)
C14_WrappedLamportsExact ==
    result # NoResult =>
        result.diagnostics.wrappedLamports = ExactTotal(Len(routes))

(* C20: the lookup tables handed to the compiler hold no address twice;    *)
(* they are the tables of exactly the referenced addresses that the ledger *)
(* resolved; every referenced address is queried, and none more than once, *)
(* however many RoutePayloads reference it.                                *)
C20_LookupTableSet ==
    /\ \A a, b \in 1..Len(altQueries) :
          altQueries[a].address = altQueries[b].address => a = b
    /\ pc \in {"finalize", "done"} =>
          { altQueries[k].address : k \in 1..Len(altQueries) } = ReferencedTables
    /\ result # NoResult =>
          LET tables == result.unsignedTx.addressTableLookups
          IN /\ \A a, b \in 1..Len(tables) : tables[a].key = tables[b].key => a = b
             /\ { tables[k].key : k \in 1..Len(tables) }
                  = { altQueries[k].address :
                        k \in { j \in 1..Len(altQueries) : altQueries[j].answer = "table" } }

C20_Witness ==
    /\ result # NoResult
    /\ \E k, m \in 1..Len(swapPayloads) :
          /\ k # m
          /\ Elems(swapPayloads[k].ixs.addressLookupTableAddresses)
                \cap Elems(swapPayloads[m].ixs.addressLookupTableAddresses) # {}
    /\ Len(altQueries) = 2
    /\ Len(result.unsignedTx.addressTableLookups) = 2

----------------------------------------------------------------------------
(* Vocabulary of the normalizer properties *)

\* NormalizeRoutesStep.run has returned normally
Normalized ==
    /\ pc \notin {"normalize", "normalizing"}
    /\ pc = "failed" => error.thrownBy[1] # "NormalizeRoutesStep"

HasAmount(k) == rawRoutes[k].amount # <<>>

HasUiAmount(k) == rawRoutes[k].uiAmount # "undefined"

\* the routes with neither amount field
MissingBoth == { k \in 1..Len(rawRoutes) : ~HasAmount(k) /\ ~HasUiAmount(k) }

\* the pipeline has ended with the missing-amount error
MissingAmountRaised ==
    pc = "failed" /\ error.message.text = "order[] missing amount/uiAmount"

\* a <= b on amounts
AtMost(a, b) == a[1] < b[1] \/ (a[1] = b[1] /\ a[2] <= b[2])

(* C16: a route that carries an explicit base-unit amount, whatever its    *)
(* side, its input asset and its user-facing amount, is returned by the    *)
(* normalization with that amount, and no ledger query is issued for it.   *)
C16_ExplicitAmountUntouched ==
    \A k \in 1..Len(rawRoutes) :
        HasAmount(k) =>
            /\ queries[k - 1] = <<>>
            /\ routes[k].amount = rawRoutes[k].amount
            /\ Normalized => routes[k] = rawRoutes[k]

C16_Witness ==
    /\ Normalized
    /\ \E k, m \in 1..Len(rawRoutes) :
          /\ HasAmount(k) /\ HasUiAmount(k) /\ rawRoutes[k].side = "sell"
          /\ routes[k].amount = <<0, 25>>
          /\ Len(queries[m - 1]) = 3

(* C17: a sell route that has only a user-facing amount is normalized to   *)
(* the smaller of the converted base-unit amount and the queried balance   *)
(* of the input asset, the balance being 0 when the owner has no token     *)
(* account; the normalized amount never exceeds that balance.              *)
C17_SellClamped ==
    Normalized =>
        \A k \in 1..Len(rawRoutes) :
            (rawRoutes[k].side = "sell" /\ ~HasAmount(k) /\ HasUiAmount(k)) =>
                LET converted == uiToBaseUnits(rawRoutes[k].uiAmount, norm[k - 1].decimals)
                    balance == IF Len(queries[k - 1]) = 3
                               THEN norm[k - 1].onchainBalance
                               ELSE <<0, 0>>
                IN /\ routes[k].amount =
                        (IF AtMost(converted, balance) THEN converted ELSE balance)
                   /\ AtMost(routes[k].amount, balance)

C17_Witness ==
    /\ Normalized
    /\ \E k \in 1..Len(rawRoutes) :
          /\ rawRoutes[k].side = "sell" /\ ~HasAmount(k) /\ HasUiAmount(k)
          /\ norm[k - 1].baseStr = <<0, 2009999>>
          /\ norm[k - 1].onchainBalance = <<0, 400000>>
          /\ routes[k].amount = <<0, 400000>>

(* C18: if some route has neither an explicit nor a user-facing amount,    *)
(* the pipeline fails with the missing-amount error naming the index of    *)
(* such a route, and no quote request, no instruction request, no          *)
(* lookup-table query and no blockhash fetch is issued.                    *)
C18_MissingAmountNamesRoute ==
    (MissingBoth # {} /\ pc # "normalize") =>
        /\ MissingAmountRaised
        /\ (error.message.args[1] + 1) \in MissingBoth
        /\ wrapRequests = <<>>
        /\ \A i \in Indices : task[i] = "idle"
        /\ altQueries = <<>>
        /\ serialized = NotSerialized

(* C19: a route with a user-facing amount and no explicit amount is always *)
(* normalized to a resolved base-unit amount, whatever its side and input  *)
(* asset; the missing-amount error names only routes that have neither     *)
(* amount field.                                                           *)
C19_UiAmountAlwaysResolved ==
    /\ MissingAmountRaised => (error.message.args[1] + 1) \in MissingBoth
    /\ (pc # "normalize" /\ MissingBoth = {}) => ~MissingAmountRaised
    /\ Normalized => \A k \in 1..Len(routes) : routes[k].amount # <<>>

----------------------------------------------------------------------------
(* Vocabulary of the resolver properties *)

\* the ledger queries that did not produce a table
Unresolved == { k \in 1..Len(altQueries) : altQueries[k].answer # "table" }

\* the resolver threw
LookupAborted == pc = "failed" /\ error.thrownBy = <<"ResolveAltStep">>

\* the resolver returned and handed over to the compiler
LookupReturned == pc \in {"finalize", "done"}

(* C21: a lookup-table address that does not resolve, because the ledger   *)
(* returns no table for it or because the query itself fails, never aborts *)
(* the pipeline: the resolver does not throw, the table of that address is *)
(* omitted, the tables of all other queried addresses are kept, and the    *)
(* build goes on to compilation.                                           *)
C21_UnresolvedNeverAborts ==
    /\ ~LookupAborted
    /\ LookupReturned =>
          /\ \A k \in 1..Len(altQueries) :
                (k \in Unresolved) <=>
                    (\A t \in 1..Len(altAccounts) :
                        altAccounts[t].key # altQueries[k].address)
          /\ Len(altAccounts) = Len(altQueries) - Cardinality(Unresolved)

----------------------------------------------------------------------------
(* Vocabulary of the repeated assembly *)

\* the assembler has run twice on the same context
AssembledTwice == Len(assembled) = 2

----------------------------------------------------------------------------
(* Vocabulary of the properties of buildMultiSwapTxV0 *)

\* the caller left onRouteNotFound out of the parameters
PolicyOmitted == params.onRouteNotFound = "undefined"

\* the routes whose provider call failed with the no-viable-route error
NoRouteFailures == { i \in Indices : NoViableRoute(thrown[i]) }

(* C23: when the caller omits onRouteNotFound, buildMultiSwapTxV0 runs     *)
(* with the policy "skip": a no-viable-route failure of a route is         *)
(* recorded in the skip list, is never the error the build ends with, and  *)
(* a returned result lists exactly those routes in diagnostics.skipped.    *)
C23_OmittedPolicySkips ==
    PolicyOmitted =>
        /\ onRouteNotFound = "skip"
        /\ \A i \in NoRouteFailures :
              /\ task[i] = "skipped"
              /\ \E k \in 1..Len(skipped) :
                    /\ skipped[k].index = i
                    /\ skipped[k].reason = thrown[i].message
              /\ error # thrown[i]
        /\ result # NoResult =>
              { result.diagnostics.skipped[k].index :
                    k \in 1..Len(result.diagnostics.skipped) } = NoRouteFailures

C23_Witness ==
    /\ PolicyOmitted
    /\ Len(routes) = 2
    /\ NoRouteFailures = {0}
    /\ result # NoResult
    /\ Len(result.diagnostics.skipped) = 1
    /\ result.diagnostics.executedCount = 1

\* a request of a later stage than normalization has been issued
ProviderAsked == wrapRequests # <<>> \/ \E i \in Indices : swapRequests[i] # <<>>

\* every callback of stage 0 has returned its route
AllNormalized == \A i \in Indices : norm[i].at = "done"

\* every callback of stages 3-4 has returned
AllRouteTasksFinished == \A i \in Indices : task[i] \in {"done", "skipped"}

\* stage 7 has begun: the blockhash was asked for, or the message compiled
CompilerEntered ==
    \/ pc \in {"getLatestBlockhash", "done"}
    \/ serialized.attempted
    \/ (pc = "failed" /\ error.thrownBy = <<"buildMultiSwapTxV0", "stage 7">>)

(* C25: in buildMultiSwapTxV0 the stages never interleave: no wrap or      *)
(* per-route provider request is issued before every route has been        *)
(* normalized, no lookup-table query is issued before every per-route task *)
(* has finished, and the blockhash fetch and the compilation happen only   *)
(* after all lookup-table queries have returned.                           *)
C25_StagesInSequence ==
    /\ ProviderAsked => AllNormalized
    /\ altQueries # <<>> => AllRouteTasksFinished
    /\ CompilerEntered =>
          /\ AllNormalized
          /\ AllRouteTasksFinished
          /\ \A k \in 1..Len(altQueries) : altQueries[k].answer \in {"table", "null"}

C25_Witness ==
    /\ pc = "done"
    /\ Len(routes) = 2
    /\ \A i \in Indices : Len(queries[i]) = 3
    /\ \A i \in Indices : Len(swapRequests[i]) = 2
    /\ Len(altQueries) = 2
    /\ altQueries[1].answer = "null"
    /\ altQueries[2].answer = "table"
    /\ serialized.attempted

----------------------------------------------------------------------------
(* Vocabulary of the schema property *)

\* an account entry of the serialized format
WellFormedMeta(x) ==
    /\ x.t = "object"
    /\ DOMAIN x.o = {"pubkey", "isSigner", "isWritable"}
    /\ x.o.pubkey.t = "string"
    /\ x.o.isSigner.t = "boolean"
    /\ x.o.isWritable.t = "boolean"

\* an instruction of the serialized format: programId, accounts and data
WellFormedIx(x) ==
    /\ x.t = "object"
    /\ DOMAIN x.o = {"programId", "accounts", "data"}
    /\ x.o.programId.t = "string"
    /\ x.o.data.t = "string"
    /\ x.o.accounts.t = "array"
    /\ \A n \in 1..Len(x.o.accounts.a) : WellFormedMeta(x.o.accounts.a[n])

IxArrayKeys == {"otherInstructions", "computeBudgetInstructions", "setupInstructions"}

SingleIxKeys == {"swapInstruction", "cleanupInstruction"}

\* each of the six fields is absent or well-formed
WellFormedBody(b) ==
    /\ \A k \in IxArrayKeys \cap DOMAIN b.o :
          /\ b.o[k].t = "array"
          /\ \A n \in 1..Len(b.o[k].a) : WellFormedIx(b.o[k].a[n])
    /\ \A k \in SingleIxKeys \cap DOMAIN b.o :
          b.o[k] = Null \/ WellFormedIx(b.o[k])
    /\ "addressLookupTableAddresses" \in DOMAIN b.o =>
          /\ b.o.addressLookupTableAddresses.t = "array"
          /\ \A n \in 1..Len(b.o.addressLookupTableAddresses.a) :
                b.o.addressLookupTableAddresses.a[n].t = "string"

\* the instructions present in the six fields
PresentIxs(b) ==
    UNION { IF b.o[k].t = "array" THEN Elems(b.o[k].a) ELSE {} :
              k \in IxArrayKeys \cap DOMAIN b.o }
      \cup { b.o[k] : k \in { j \in SingleIxKeys \cap DOMAIN b.o : b.o[j] # Null } }

\* an instruction object without programId, accounts or data
LacksRequired(x) ==
    x.t = "object" /\ ~({"programId", "accounts", "data"} \subseteq DOMAIN x.o)

----------------------------------------------------------------------------
(* Vocabulary of the per-route requests *)

\* the getQuote call of route i threw
QuoteFailed(i) == \E e \in QuoteErrors : thrown[i] = Thrown(e, <<"route", i>>)

\* the getQuote call of route i has returned a quote
QuoteReturned(i) == task[i] \in {"ixs", "done", "failed", "skipped"} /\ ~QuoteFailed(i)

(* C26: for every route the instruction request is issued only after that  *)
(* route's quote request has returned successfully, and carries the quote  *)
(* returned to that route; a route whose quote failed issues no            *)
(* instruction request; every per-route instruction request has            *)
(* native-asset wrapping disabled and dynamic compute-unit estimation      *)
(* enabled.                                                                *)
C26_IxsRequestFollowsOwnQuote ==
    \A i \in Indices :
        LET reqs == swapRequests[i] IN
        /\ Len(reqs) <= 2
        /\ Len(reqs) >= 1 => reqs[1] = RouteQuoteRequest(routes[i + 1])
        /\ Len(reqs) = 2 =>
              /\ QuoteReturned(i)
              /\ reqs[2].call = "getSwapInstructions"
              /\ reqs[2].quoteResponse.returnedTo = i
              /\ reqs[2].quoteResponse.inputMint = routes[i + 1].inputMint
              /\ reqs[2].quoteResponse.inAmount = routes[i + 1].amount
              /\ reqs[2].wrapAndUnwrapSol = FALSE
              /\ reqs[2].dynamicComputeUnitLimit = TRUE
        /\ QuoteReturned(i) => Len(reqs) = 2
        /\ QuoteFailed(i) => Len(reqs) = 1

C26_Witness ==
    /\ Len(routes) = 3
    /\ QuoteFailed(0)
    /\ Len(swapRequests[0]) = 1
    /\ task[1] = "done"
    /\ Len(swapRequests[1]) = 2
    /\ task[2] = "quote"
    /\ Len(swapRequests[2]) = 1

\* the callbacks of the Route Resolver that threw
FailedTasks == { i \in Indices : task[i] = "failed" }

(* C27: once one route task fails fatally, the outcome of the pipeline is  *)
(* that first error: the step that records the first failure ends the      *)
(* pipeline with the error of that route, and whatever the calls of the    *)
(* other routes do afterwards, the error stays the same and no BuildResult *)
(* is produced.                                                            *)
C27_FirstFatalErrorStands ==
    [][ /\ (FailedTasks = {} /\ FailedTasks' # {}) =>
              /\ pc' = "failed"
              /\ result' = NoResult
              /\ \E i \in FailedTasks' : error' = thrown'[i]
        /\ FailedTasks # {} =>
              /\ pc' = "failed"
              /\ error' = error
              /\ result' = NoResult ]_vars

C27_Witness ==
    /\ Len(routes) = 3
    /\ FailedTasks = {0, 1}
    /\ thrown[0].message # thrown[1].message
    /\ error = thrown[1]
    /\ task[2] = "done"
    /\ Len(swapPayloads) = 1
    /\ result = NoResult

----------------------------------------------------------------------------
(* Vocabulary of the assembler properties, the generic key *)

\* every instruction handed to pushIfUnique
Pushed == UNION { Sections[n] : n \in 1..7 }

(* C28: outside the associated-token-account program, an instruction is    *)
(* dropped only when an earlier instruction has the same program           *)
(* identifier, the same ordered account list (account identifiers with     *)
(* their is-signer and is-writable flags) and the same payload: every      *)
(* instruction handed to the deduplication is in the assembled sequence.   *)
C28_DropsOnlyExactDuplicates ==
    Assembled =>
        \A x \in Pushed : ~IsAta(x) => x \in Elems(instructions)

\* the first data byte of a compute-budget instruction names the directive
IsUnitLimit(ix) ==
    ix.programId = COMPUTE_BUDGET_PROGRAM_ID /\ Len(ix.data) > 0 /\ ix.data[1] = 2

IsUnitPrice(ix) ==
    ix.programId = COMPUTE_BUDGET_PROGRAM_ID /\ Len(ix.data) > 0 /\ ix.data[1] = 3

\* the instructions the compute-budget section put into the sequence
KeptBudget == { x \in BudgetSection : x \in Elems(instructions) }

(* C29: the compute-budget instructions the assembler keeps are at most    *)
(* one unit-limit directive and at most one unit-price directive, also     *)
(* when the routes return directives of one kind with different values.    *)
C29_OneLimitOnePrice ==
    Assembled =>
        /\ Cardinality({ x \in KeptBudget : IsUnitLimit(x) }) <= 1
        /\ Cardinality({ x \in KeptBudget : IsUnitPrice(x) }) <= 1

----------------------------------------------------------------------------
(* Vocabulary of the token-ledger property *)

\* the assembler has run
InstructionsAssembled == assembled # <<>>

\* the RoutePayloads that carry a token-ledger instruction
LedgerCarriers ==
    { k \in 1..Len(swapPayloads) : swapPayloads[k].ixs.tokenLedgerInstruction # NullJson }

\* the token-ledger instructions the provider returns
TokenLedgerIxs == { toIx(JLedger1), toIx(JLedger2) }

\* the carrier of the lowest route index
FirstCarrierInRouteOrder ==
    CHOOSE k \in LedgerCarriers :
        \A m \in LedgerCarriers : swapPayloads[k].i <= swapPayloads[m].i

(* C30: the assembled sequence contains at most one token-ledger           *)
(* instruction, however many RoutePayloads carry one; it is the one of the *)
(* first RoutePayload, in route order, that carries one, and there is none *)
(* when no RoutePayload carries one.                                       *)
C30_FirstTokenLedgerInRouteOrder ==
    InstructionsAssembled =>
        LET ledgers == { p \in 1..Len(instructions) : instructions[p] \in TokenLedgerIxs }
        IN /\ Cardinality(ledgers) <= 1
           /\ LedgerCarriers = {} => ledgers = {}
           /\ LedgerCarriers # {} =>
                 \E p \in ledgers :
                    instructions[p] =
                        toIx(swapPayloads[FirstCarrierInRouteOrder].ixs.tokenLedgerInstruction)

----------------------------------------------------------------------------
(* Vocabulary of the diagnostics properties *)

\* the table references of all RoutePayloads, before any deduplication
RawTableReferences == AltRefs(swapPayloads)

\* a build that returned its result
BuildSucceeded == pc = "done" /\ result # NoResult

(* C31: in the diagnostics of a successful build, altBefore is the number  *)
(* of table references collected across all RoutePayloads before           *)
(* deduplication, altAfter is the number of distinct tables compiled, and  *)
(* altSaved, their difference, is the number of duplicate references       *)
(* removed.                                                                *)
C31_AltCountsFromRawReferences ==
    BuildSucceeded =>
        LET d == result.diagnostics
            tables == result.unsignedTx.addressTableLookups
        IN /\ d.altBefore = Len(RawTableReferences)
           /\ d.altAfter = Cardinality({ tables[k].key : k \in 1..Len(tables) })
           /\ d.altAfter = Len(tables)
           /\ d.altSaved = d.altBefore - d.altAfter
           /\ d.altSaved = Len(RawTableReferences)
                             - Cardinality(Elems(RawTableReferences))

----------------------------------------------------------------------------
(* Vocabulary of the client properties *)

\* the responses of the service are logged
ThroughClient == http # <<>>

\* the exchanges of route i's callback: its getQuote, then its getSwapInstructions
RouteExchanges(i) == http.route[i]

\* what the call of an exchange ended on
Answer(ex) == ex.read[Len(ex.read)]

\* the service answered the call with its no-viable-route code
AnsweredNoRoute(ex) ==
    /\ Answer(ex).statusCode # 200
    /\ Answer(ex).body.json
    /\ Answer(ex).body.errorCode = "COULD_NOT_FIND_ANY_ROUTE"

\* the callback of route i got the no-viable-route code for its instruction request
IxsAnsweredNoRoute(i) ==
    /\ Len(RouteExchanges(i)) = 2
    /\ RouteExchanges(i)[2].call = "getSwapInstructions"
    /\ AnsweredNoRoute(RouteExchanges(i)[2])

(* C32: when the service answers a route's instruction request with the    *)
(* no-viable-route code, the client signals it as it does for the quote    *)
(* request, a JupiterApiError carrying the code, and under policy "skip"   *)
(* the route becomes a SkipRecord and does not abort the pipeline.         *)
C32_IxsNoRouteIsSkipped ==
    ThroughClient =>
        \A i \in Indices :
            IxsAnsweredNoRoute(i) =>
                /\ NoViableRoute(thrown[i])
                /\ onRouteNotFound = "skip" =>
                      /\ task[i] = "skipped"
                      /\ i \in Elems(SkipIndices)
                      /\ ~(pc = "failed" /\ error.thrownBy = <<"route", i>>)

\* the service answers the first request of the call with a transient
\* status and would answer the next one with a success
TransientThenSuccess(ex) ==
    /\ Transient(ex.read[1])
    /\ IF Len(ex.read) > 1
       THEN Answer(ex).statusCode = 200
       ELSE ex.unread # <<>> /\ ex.unread[1].statusCode = 200

AllExchanges ==
    { http.wrap[k] : k \in 1..Len(http.wrap) }
    \cup UNION { { RouteExchanges(i)[k] : k \in 1..Len(RouteExchanges(i)) } : i \in Indices }

(* C33: the client retries a request answered with a transient status      *)
(* (429 or 5xx): a call whose first response is transient and whose next   *)
(* would be a success does not fail, neither for the wrap planner nor for  *)
(* a route's callback. (Every call makes one request, so the number of     *)
(* requests per call is bounded.)                                          *)
C33_TransientIsRetried ==
    ThroughClient =>
        /\ \A ex \in AllExchanges : Len(ex.read) = 1
        /\ \A k \in 1..Len(http.wrap) :
              TransientThenSuccess(http.wrap[k]) =>
                  ~(pc = "failed" /\ error.thrownBy = <<"WrapSolStep">>)
        /\ \A i \in Indices :
              \A k \in 1..Len(RouteExchanges(i)) :
                  TransientThenSuccess(RouteExchanges(i)[k]) =>
                      /\ thrown[i] = NoError
                      /\ task[i] # "failed"

\* what the client made of the exchange for the wrap planner
WrapOutcome(ex) ==
    IF ex.call = "getQuote" THEN getQuote(Answer(ex), "dummyQuote")
    ELSE getSwapInstructions(Answer(ex))

\* the exchanges of the wrap planner that ended in a failure
FailedWrapExchanges == { k \in 1..Len(http.wrap) : ~WrapOutcome(http.wrap[k]).ok }

(* C36: a failure of the wrap planner's reference quote or of its          *)
(* instruction request, the no-viable-route answer included, aborts the    *)
(* pipeline with that error under either policy: no SkipRecord is made of  *)
(* it, no route is asked for and no result is built.                       *)
C36_WrapFailureAlwaysAborts ==
    ThroughClient =>
        \A k \in FailedWrapExchanges :
            /\ pc = "failed"
            /\ error = Thrown(WrapOutcome(http.wrap[k]).error, <<"WrapSolStep">>)
            /\ skipped = <<>>
            /\ \A i \in Indices : task[i] = "idle"
            /\ result = NoResult

C36_Witness ==
    /\ ThroughClient
    /\ onRouteNotFound = "skip"
    /\ Len(routes) = 2
    /\ Len(http.wrap) = 1
    /\ AnsweredNoRoute(http.wrap[1])
    /\ NoViableRoute(error)
    /\ pc = "failed"

----------------------------------------------------------------------------
(* Vocabulary of the holdings property *)

\* the sell routes that carry only a user-facing amount
UiOnlySells ==
    { k \in 1..Len(rawRoutes) :
        rawRoutes[k].side = "sell" /\ ~HasAmount(k) /\ HasUiAmount(k) }

\* the balance the ledger gave the callback of route k: 0 without a token account
BalanceSeen(k) ==
    IF Len(queries[k - 1]) = 3 THEN norm[k - 1].onchainBalance ELSE <<0, 0>>

\* routes that sell the same asset out of the same queried balance
SameHoldings(S) ==
    \A a, b \in S :
        /\ rawRoutes[a].inputMint = rawRoutes[b].inputMint
        /\ BalanceSeen(a) = BalanceSeen(b)

\* the exact sum of the normalized amounts of the routes of S
RECURSIVE SoldBy(_)
SoldBy(S) ==
    IF S = {} THEN <<0, 0>>
    ELSE LET k == CHOOSE x \in S : TRUE
         IN BigAdd(routes[k].amount, SoldBy(S \ {k}))

(* C34: the normalized amounts of any set of sell routes that share the    *)
(* input asset and carry only user-facing amounts sum to no more than the  *)
(* caller's queried balance of that asset.                                 *)
C34_SellsWithinHoldings ==
    Normalized =>
        \A S \in (SUBSET UiOnlySells) \ {{}} :
            SameHoldings(S) =>
                AtMost(SoldBy(S), BalanceSeen(CHOOSE k \in S : TRUE))

----------------------------------------------------------------------------
\* SwapStep.run has ended with an error: its Promise.all rejected, or it
\* found no payload after the join
SwapStepEnded ==
    /\ pc = "failed"
    /\ error.thrownBy # <<>>
    /\ error.thrownBy[1] \in {"route", "SwapStep"}

(* C35: once SwapStep.run has ended with an error, ctx.swapPayloads and    *)
(* ctx.skipped are no longer modified: a route callback that completes     *)
(* after the abort appends nothing to either list.                         *)
C35_ListsFrozenAfterAbort ==
    [][SwapStepEnded => (swapPayloads' = swapPayloads /\ skipped' = skipped)]_vars

----------------------------------------------------------------------------
\* the native-asset-funded buy routes that were skipped
SkippedNativeBuys == { k \in NativeBuys : (k - 1) \in Elems(SkipIndices) }

\* the total of the native-asset-funded buy routes that were executed
ExecutedLamports == totalLamports(RoutesAmong(Len(routes), Elems(PayloadIndices)))

(* C37: the wrapped amount and the wrap request cover every requested      *)
(* native-asset-funded buy route: in a successful build where such a route *)
(* was skipped, wrappedLamports is still the total over all of them, the   *)
(* skipped one included, the wrap request was made for that total, and the *)
(* wrap and cleanup instructions it returned are in the transaction.       *)
C37_WrapCoversSkippedRoutes ==
    (BuildSucceeded /\ SkippedNativeBuys # {}) =>
        LET wrapped == result.diagnostics.wrappedLamports
        IN /\ wrapped = totalLamports(routes)
           /\ \A k \in SkippedNativeBuys : AtMost(Number(routes[k].amount), wrapped)
           /\ BigLess(ExecutedLamports, wrapped)
           /\ Len(wrapRequests) = 2
           /\ wrapRequests[1].amount = wrapped
           /\ wrapRequests[2].wrapAndUnwrapSol
           /\ Elems(wrapInstrs) \subseteq Elems(result.unsignedTx.instructions)
           /\ cleanupInstr # NullIx =>
                 cleanupInstr \in Elems(result.unsignedTx.instructions)

C37_Witness ==
    /\ BuildSucceeded
    /\ SkippedNativeBuys = {1}
    /\ Len(swapPayloads) = 1
    /\ result.diagnostics.wrappedLamports = <<0, 1000000>>
    /\ ExecutedLamports = <<0, 0>>
    /\ wrapInstrs # <<>>
    /\ cleanupInstr \in Elems(result.unsignedTx.instructions)

----------------------------------------------------------------------------
\* the places of the assembled sequence that hold an instruction of the
\* compute-budget program, whatever fragment it came from
BudgetProgramPlaces ==
    { p \in 1..Len(instructions) :
        instructions[p].programId = COMPUTE_BUDGET_PROGRAM_ID }

(* C38: counting every source (wrap instructions, compute-budget           *)
(* fragments, and setup and other fragments that target the compute-budget *)
(* program), the assembled sequence contains at most two instructions of   *)
(* the compute-budget program.                                             *)
C38_AtMostTwoBudgetInstructions ==
    Assembled => Cardinality(BudgetProgramPlaces) <= 2

\* under the same outcome of the same external call, the function and
\* the pipeline take the same step
SameStep ==
    /\ MonoNormalize <=> NormalizeRoutesStep
    /\ \A i \in Indices : \A d \in EquivDecimals :
          MonoSupplyReturns(i, d) <=> SupplyReturns(i, d)
    /\ \A i \in Indices :
          /\ MonoAccountsReturns(i, 0) <=> AccountsReturns(i, FALSE)
          /\ MonoAccountsReturns(i, 1) <=> AccountsReturns(i, TRUE)
          /\ MonoQueryThrows(i) <=> QueryThrows(i)
          /\ MonoQuoteReturns(i) <=> QuoteReturns(i)
    /\ \A i \in Indices : \A amount \in EquivBalances :
          MonoBalanceReturns(i, amount) <=> BalanceReturns(i, amount)
    /\ MonoNormalized <=> NormalizeJoin
    /\ MonoTotal <=> WrapSolStep
    /\ MonoDummyQuoteReturns <=> WrapQuoteReturns
    /\ \A e \in EquivErrors :
          MonoWrapThrows(e) <=> (WrapQuoteThrows(e) \/ WrapIxsThrows(e))
    /\ \A swapIxs \in WrapResponses :
          MonoWrapIxsReturns(swapIxs) <=> WrapIxsReturns(swapIxs)
    /\ MonoRoutesStart <=> SwapStepStart
    /\ \A i \in Indices : \A ixs \in EquivResponses :
          MonoIxsReturns(i, ixs) <=> IxsReturns(i, ixs)
    /\ \A i \in Indices : \A e \in EquivErrors :
          MonoRouteThrows(i, e) <=> (QuoteThrows(i, e) \/ IxsThrows(i, e))
    /\ MonoRoutesJoined <=> SwapStepJoin

\* C39: given the same routes and the same policy in force, and under the
\* same outcomes of the external calls, buildMultiSwapTxV0 (stages 0 to 4)
\* and the steps NormalizeRoutesStep, WrapSolStep and SwapStep go through
\* the same states: every step of one is the step of the other, so the
\* normalized amounts, the wrapped total and the wrap requests, the
\* resolved and the skipped indices, and the abort and its error agree.
C39_MonolithAgreesWithPipeline == [][SameStep]_vars

\* both programs have gone through every stage: a sale was cut down to the
\* balance held, a wrap was fetched, one route was skipped, one resolved
C39_Witness ==
    /\ pc = "assemble"
    /\ Len(wrapRequests) = 2
    /\ BigLess(Zero, wrappedLamports)
    /\ Len(skipped) = 1
    /\ Len(swapPayloads) = 1
    /\ \E i \in Indices :
          /\ norm[i].onchainBalance = routes[i + 1].amount
          /\ BigLess(routes[i + 1].amount, norm[i].baseStr)

====
